---------------------------- MODULE Spec2Model ----------------------------
(***************************************************************************)
(* A model of the PTY session manager of agents-ui (src-tauri/src/pty.rs): *)
(* the session registry, create/close/list/write/resize, the per-session   *)
(* output pump with its streaming UTF-8 decoder, and the recording of the  *)
(* user's input to JSON-lines files (start/stop/record_user_input); of the *)
(* zsh startup files it writes; of the saving of the persisted state       *)
(* (persist.rs) and of the file service (files.rs).                        *)
(*                                                                         *)
(* Fourteen specifications:                                                *)
(*   Spec        the registry under all the commands, the pump threads of  *)
(*               children that write no output;                            *)
(*   SpecPump    one session from create to exit, its pump reading output; *)
(*   SpecDecode  decode_utf8_stream driven over one byte stream cut into   *)
(*               chunks, as one pump loop drives it;                       *)
(*   SpecNames   the names create_session gives as sessions come and go;   *)
(*   SpecRec     the recording of one session: starts, stops, writes of    *)
(*               every source, failing PTY and file writes, time;          *)
(*   SpecShared  the recordings of two sessions that may name one file;    *)
(*   SpecSanitize  sanitize_recording_id applied to an id, and again;      *)
(*   SpecCwd     the working directory create_session chooses;             *)
(*   SpecLoad    load_recording over the lines of a file;                  *)
(*   SpecLock    the threads of the program at the registry lock;          *)
(*   SpecFlush   one recording whose input is written and then left idle;  *)
(*   SpecSave    save_persisted_state step by step, with crashes and loads;*)
(*   SpecZsh     zsh reading the startup files write_zsh_startup_files     *)
(*               wrote;                                                    *)
(*   SpecFiles   the commands of the file service on a small file system.  *)
(***************************************************************************)
EXTENDS Integers, Sequences, FiniteSets, TLC

\* Option<T>: None is the empty sequence, Some(x) the one-element sequence.
None == <<>>
Some(x) == <<x>>
IsSome(o) == Len(o) = 1
Unwrap(o) == o[1]

Min(a, b) == IF a < b THEN a ELSE b

(***************************************************************************)
(* Bounds of the model.                                                    *)
(***************************************************************************)
\* longest raw byte stream fed to the decoder in SpecDecode
MaxBytes == 4
\* longest text (in code points) encoded and fed to the decoder in SpecDecode
MaxText == 2

(***************************************************************************)
(* UTF-8, as core::str::from_utf8 validates it.  A string is modelled as   *)
(* the sequence of its code points, a byte buffer as a sequence of 0..255. *)
(***************************************************************************)
\* the replacement character pushed at pty.rs:133
REPLACEMENT == 65533

IsCont(b) == b \in 128..191

\* core::str::utf8_char_width: 0 for a byte that cannot start a sequence
utf8_char_width(b) ==
  IF b < 128 THEN 1
  ELSE IF b \in 194..223 THEN 2
  ELSE IF b \in 224..239 THEN 3
  ELSE IF b \in 240..244 THEN 4
  ELSE 0

\* the second byte allowed after the first byte of a 3-byte sequence
Second3(first, b) ==
  \/ first = 224 /\ b \in 160..191
  \/ first \in 225..236 /\ b \in 128..191
  \/ first = 237 /\ b \in 128..159
  \/ first \in 238..239 /\ b \in 128..191

\* the second byte allowed after the first byte of a 4-byte sequence
Second4(first, b) ==
  \/ first = 240 /\ b \in 144..191
  \/ first \in 241..243 /\ b \in 128..191
  \/ first = 244 /\ b \in 128..143

\* One step of the validation loop on the sequence that starts at s[i]:
\* "ok" with its width, "err" with the length of the invalid span
\* (error_len = Some(len)), "incomplete" when the input ends inside a
\* sequence that is valid so far (error_len = None).
CheckSeq(s, i) ==
  LET n == Len(s)
      first == s[i]
      w == utf8_char_width(first)
      ok(k) == [k |-> "ok", len |-> k]
      err(k) == [k |-> "err", len |-> k]
      inc == [k |-> "incomplete", len |-> n - i + 1]
  IN  IF w = 1 THEN ok(1)
      ELSE IF w = 2 THEN
        IF i + 1 > n THEN inc
        ELSE IF ~IsCont(s[i + 1]) THEN err(1)
        ELSE ok(2)
      ELSE IF w = 3 THEN
        IF i + 1 > n THEN inc
        ELSE IF ~Second3(first, s[i + 1]) THEN err(1)
        ELSE IF i + 2 > n THEN inc
        ELSE IF ~IsCont(s[i + 2]) THEN err(2)
        ELSE ok(3)
      ELSE IF w = 4 THEN
        IF i + 1 > n THEN inc
        ELSE IF ~Second4(first, s[i + 1]) THEN err(1)
        ELSE IF i + 2 > n THEN inc
        ELSE IF ~IsCont(s[i + 2]) THEN err(2)
        ELSE IF i + 3 > n THEN inc
        ELSE IF ~IsCont(s[i + 3]) THEN err(3)
        ELSE ok(4)
      ELSE err(1)

RECURSIVE Validate(_, _)
Validate(s, i) ==
  IF i > Len(s) THEN [ok |-> TRUE, valid_up_to |-> Len(s), error_len |-> None]
  ELSE LET r == CheckSeq(s, i)
       IN  IF r.k = "ok" THEN Validate(s, i + r.len)
           ELSE [ok |-> FALSE,
                 valid_up_to |-> i - 1,
                 error_len |-> IF r.k = "err" THEN Some(r.len) ELSE None]

\* std::str::from_utf8: Ok, or Utf8Error { valid_up_to, error_len }
from_utf8(s) == Validate(s, 1)

\* the code point of the well-formed sequence of width w at s[i]
CodePointAt(s, i, w) ==
  IF w = 1 THEN s[i]
  ELSE IF w = 2 THEN (s[i] - 192) * 64 + (s[i + 1] - 128)
  ELSE IF w = 3 THEN (s[i] - 224) * 4096 + (s[i + 1] - 128) * 64 + (s[i + 2] - 128)
  ELSE (s[i] - 240) * 262144 + (s[i + 1] - 128) * 4096
       + (s[i + 2] - 128) * 64 + (s[i + 3] - 128)

\* the text of a well-formed byte sequence (the &str view of the bytes)
RECURSIVE Chars(_, _)
Chars(s, i) ==
  IF i > Len(s) THEN <<>>
  ELSE LET w == utf8_char_width(s[i])
       IN  <<CodePointAt(s, i, w)>> \o Chars(s, i + w)

\* the UTF-8 encoding of one code point (char::encode_utf8)
EncodeChar(c) ==
  IF c < 128 THEN <<c>>
  ELSE IF c < 2048 THEN <<192 + (c \div 64), 128 + (c % 64)>>
  ELSE IF c < 65536 THEN
    <<224 + (c \div 4096), 128 + ((c \div 64) % 64), 128 + (c % 64)>>
  ELSE <<240 + (c \div 262144), 128 + ((c \div 4096) % 64),
         128 + ((c \div 64) % 64), 128 + (c % 64)>>

\* the bytes of a string (str::as_bytes)
RECURSIVE Encode(_)
Encode(t) == IF t = <<>> THEN <<>> ELSE EncodeChar(Head(t)) \o Encode(Tail(t))

\* String::from_utf8_lossy: the valid text, one U+FFFD per invalid span, an
\* incomplete sequence at the end of the input being one invalid span.
RECURSIVE LossyLoop(_, _, _)
LossyLoop(buf, idx, out) ==
  IF ~(idx < Len(buf)) THEN out
  ELSE LET rest == SubSeq(buf, idx + 1, Len(buf))
           e == from_utf8(rest)
       IN  IF e.ok THEN out \o Chars(rest, 1)
           ELSE LET out1 == out \o Chars(SubSeq(rest, 1, e.valid_up_to), 1)
                             \o <<REPLACEMENT>>
                IN  IF IsSome(e.error_len)
                    THEN LossyLoop(buf, idx + e.valid_up_to + Unwrap(e.error_len), out1)
                    ELSE out1

from_utf8_lossy(v) == LossyLoop(v, 0, <<>>)

\* the loop of decode_utf8_stream, were it to step over one byte of an
\* invalid span instead of error_len bytes
RECURSIVE DecodeLoop_step1(_, _, _)
DecodeLoop_step1(buf, idx, out) ==
  IF ~(idx < Len(buf)) THEN [out |-> out, idx |-> idx]
  ELSE LET rest == SubSeq(buf, idx + 1, Len(buf))
           e == from_utf8(rest)
       IN  IF e.ok THEN [out |-> out \o Chars(rest, 1), idx |-> Len(buf)]
           ELSE LET end == idx + e.valid_up_to
                    out1 == out \o Chars(SubSeq(buf, idx + 1, end), 1)
                IN  IF IsSome(e.error_len)
                    THEN DecodeLoop_step1(buf, Min(end + 1, Len(buf)),
                                          Append(out1, REPLACEMENT))
                    ELSE [out |-> out1, idx |-> end]

\* pty.rs:115-139, the while loop of decode_utf8_stream over carry (with the
\* chunk appended): the text pushed to out and the index reached.
RECURSIVE DecodeLoop(_, _, _)
DecodeLoop(buf, idx, out) ==
  IF ~(idx < Len(buf)) THEN [out |-> out, idx |-> idx]
  ELSE LET rest == SubSeq(buf, idx + 1, Len(buf))
           e == from_utf8(rest)
       IN  IF e.ok THEN [out |-> out \o Chars(rest, 1), idx |-> Len(buf)]
           ELSE LET valid == e.valid_up_to
                    end == idx + valid
                    out1 == IF valid > 0
                            THEN out \o Chars(SubSeq(buf, idx + 1, end), 1)
                            ELSE out
                    idx1 == IF valid > 0 THEN end ELSE idx
                IN  IF IsSome(e.error_len)
                    THEN DecodeLoop(buf,
                                    Min(idx1 + Unwrap(e.error_len), Len(buf)),
                                    Append(out1, REPLACEMENT))
                    ELSE [out |-> out1, idx |-> idx1]

\* decode_utf8_stream, were the decoded bytes left in the carry
decode_utf8_stream_nodrain(carry, chunk) ==
  IF chunk = <<>> THEN [out |-> <<>>, carry |-> carry]
  ELSE LET buf == carry \o chunk
           r == DecodeLoop(buf, 0, <<>>)
       IN  [out |-> r.out, carry |-> buf]

\* decode_utf8_stream, were it to decode every chunk on its own, keeping no
\* carry
decode_utf8_stream_nocarry(carry, chunk) ==
  [out |-> from_utf8_lossy(chunk), carry |-> <<>>]

\* pty.rs:107-145: the string returned and the carry left behind
decode_utf8_stream(carry, chunk) ==
  IF chunk = <<>> THEN [out |-> <<>>, carry |-> carry]
  ELSE LET buf == carry \o chunk
           r == DecodeLoop(buf, 0, <<>>)
       IN  [out |-> r.out,
            carry |-> IF r.idx > 0 THEN SubSeq(buf, r.idx + 1, Len(buf)) ELSE buf]


(***************************************************************************)
(* The registry (AppStateInner), the calls in progress, the pump threads.  *)
(* Commands are called from any number of threads.  A call that takes      *)
(* several steps is identified by the session id it works on: a            *)
(* create_session by the id it took from the counter, a close_session      *)
(* past its critical section by the id of the session it removed.          *)
(***************************************************************************)
\* AppStateInner (pty.rs:13-16)
VARIABLES next_id, sessions
\* the OS side of each session: the spawned child, the thread close_session
\* starts to wait on it
VARIABLES child, waiter
\* the pump thread of each session (pty.rs:538-588): its position, its
\* utf8_carry, the result of its sessions.remove, the events it has emitted
VARIABLES pumpPc, utf8_carry, pumpSession, emitted
\* the create_session call that took each id: its position and its locals
\* (at the end the SessionInfo it returned); the ids of the sessions a
\* close_session has removed and not yet killed
VARIABLES createPc, createLocal, closing
\* the response returned by the step just taken, if it returned one
VARIABLES last
\* observations: the chunks each pump has read; the ids allocated, in order
VARIABLES reads, allocated
\* the recording files by id (the names of the files in the recordings
\* directory, without .jsonl); the clock, in milliseconds; the session a
\* close_session has removed and holds until it returns
VARIABLES files, now, closeSession
\* SpecDecode: the byte stream, what it was built from, how much of it has
\* been fed, the lengths of the chunks fed, the carry, the concatenated
\* output, whether the loop has ended
VARIABLES dIn, dKind, dExpect, dPos, dCuts, dCarry, dOut, dDone

\* SpecSanitize: the argument of sanitize_recording_id, what it returned,
\* what it returned when called with that
VARIABLES input, out, out_again
\* SpecCwd: the cwd argument of create_session, $HOME, the paths that are
\* directories; the local cwd once computed, the directory given to the
\* command, the cwd of the SessionInfo returned
VARIABLES cwd_arg, HOME, dirs, cwd_local, cmd_cwd, info_cwd
\* SpecLoad: the lines of the file load_recording reads; what it returned
VARIABLES lines, loaded
\* SpecLock, the threads at the registry lock: the holder of the lock; the
\* ids in the registry; each caller's position in its command and the
\* command; each pump's position; the bytes written to each PTY and how many
\* of them the child has not read; each child and the kills and waits on
\* its handle; who took each session out of the registry; the calls started;
\* the writes in the order they took the lock; the clock and the input
\* lines recorded for each session; the thread close_session starts
VARIABLES lock, registry, callPc, call, pumpAt, ptyIn, unread, childState,
          kills, waits, obtained, calls, lockOrder, clock, recorded, waiterAt

recVars == <<files, now, closeSession>>
regVars == <<next_id, sessions, child, waiter, pumpPc, utf8_carry, pumpSession,
             emitted, createPc, createLocal, closing, last, reads, allocated,
             recVars>>
decVars == <<dIn, dKind, dExpect, dPos, dCuts, dCarry, dOut, dDone>>
sanVars == <<input, out, out_again>>
\* the variables of the specifications of functions
cwdVars == <<cwd_arg, HOME, dirs, cwd_local, cmd_cwd, info_cwd>>
loadVars == <<lines, loaded>>
\* persist.rs: the state file and the temporary file beside it; where a
\* save_persisted_state is, its argument, what the state file held when it
\* began and its result; the saves begun; the result of the last
\* load_persisted_state
VARIABLES state_file, tmp_file, savePc, saveState, savePrev, saveResult,
          saves, loadedState
saveVars == <<state_file, tmp_file, savePc, saveState, savePrev, saveResult,
              saves, loadedState>>
\* a zsh started by create_session: the startup files of the user that
\* exist and the wrappers write_zsh_startup_files wrote; the ZDOTDIR of the
\* shell, the startup file it is at, the commands of the wrapper it is in,
\* its variable __agents_ui_temp_zdotdir, what it has sourced, and whether
\* it is the shell of the session or a shell started from it
VARIABLES zshOrigFiles, zshWritten, zdotdir, zshPc, zshFile, zshSaved,
          zshSourced, zshLevel
zshVars == <<zshOrigFiles, zshWritten, zdotdir, zshPc, zshFile, zshSaved,
             zshSourced, zshLevel>>
\* files.rs: the entries of the file system by canonical path, and the last
\* command of the file service with what it did, and the number of commands
VARIABLES tree, fsLast, fsCalls
fsVars == <<tree, fsLast, fsCalls>>
svcVars == <<saveVars, zshVars, fsVars>>
funVars == <<sanVars, cwdVars, loadVars, svcVars>>
lockVars == <<lock, registry, callPc, call, pumpAt, ptyIn, unread,
              childState, kills, waits, obtained, calls, lockOrder, clock,
              recorded, waiterAt>>
vars == <<regVars, decVars, funVars, lockVars>>

\* number of create_session calls that allocate an id
MaxCreates == 2
\* number of chunks the pumps read in all
MaxReads == 3

Ids == {ToString(i) : i \in 0..(MaxCreates - 1)}

\* what a pump's read may return: 'A', the first byte of a 2-byte sequence,
\* a continuation byte, the first two bytes of a 3-byte sequence and its
\* last byte
Chunks == {<<65>>, <<195>>, <<169>>, <<226, 130>>, <<172>>}

\* a string as the sequence of its characters, for trim()
RECURSIVE Join(_)
Join(cs) == IF cs = <<>> THEN "" ELSE Head(cs) \o Join(Tail(cs))

\* char::is_whitespace: the characters with the White_Space property that
\* the model uses: space, tab, line feed and the no-break space U+00A0
\* (a character outside ASCII is written U+ and its code)
WhiteSpace == {" ", "\t", "\n", "U+A0"}

RECURSIVE TrimStart(_)
TrimStart(cs) ==
  IF cs # <<>> /\ Head(cs) \in WhiteSpace THEN TrimStart(Tail(cs)) ELSE cs

RECURSIVE TrimEnd(_)
TrimEnd(cs) ==
  IF cs # <<>> /\ cs[Len(cs)] \in WhiteSpace
  THEN TrimEnd(SubSeq(cs, 1, Len(cs) - 1))
  ELSE cs

\* str::trim
Trim(cs) == TrimEnd(TrimStart(cs))

\* the name argument of create_session
NameArgs == {None, Some(<<"s", "h", "e", "l", "l", " ">>)}
\* the command argument of create_session
CommandArgs == {None, Some(<<"l", "s">>)}
\* $SHELL
shell == "/bin/sh"
\* the recording_id argument of start_session_recording
RecordingIds == {<<"r", "1">>}

Ok(v) == [ok |-> TRUE, val |-> v]
Err(e) == [ok |-> FALSE, val |-> e]

Remove(f, k) == [i \in DOMAIN f \ {k} |-> f[i]]
Insert(f, k, v) == [i \in DOMAIN f \cup {k} |-> IF i = k THEN v ELSE f[i]]

\* the loop of unique_name, were the suffix the number of names taken plus
\* one
Probe_count(taken, base, n) == base \o "-" \o ToString(Cardinality(taken) + 1)

\* pty.rs:97-104: the loop of unique_name
RECURSIVE Probe(_, _, _)
Probe(taken, base, n) ==
  LET candidate == base \o "-" \o ToString(n)
  IN  IF candidate \notin taken THEN candidate ELSE Probe(taken, base, n + 1)

\* unique_name, were it to return the base name without looking at the
\* names taken
unique_name_base(existing, base) == base

\* pty.rs:92-105
unique_name(existing, base) ==
  LET taken == {existing[i].name : i \in DOMAIN existing}
  IN  IF base \notin taken THEN base ELSE Probe(taken, base, 2)

\* pty.rs:349-350
is_shell(command) ==
  Trim(IF IsSome(command) THEN Unwrap(command) ELSE <<>>) = <<>>

\* pty.rs:368-386: the display string of the command
shown_command(command, nu) ==
  IF is_shell(command)
  THEN IF nu THEN "nu" ELSE shell \o " -l"
  ELSE shell \o " -lc " \o Join(Trim(Unwrap(command)))

\* pty.rs:518-520
base_trimmed(name, command) ==
  LET base_name == IF IsSome(name) THEN Unwrap(name)
                   ELSE IF is_shell(command) THEN <<"s", "h", "e", "l", "l">>
                   ELSE <<"a", "g", "e", "n", "t">>
      t == Trim(base_name)
  IN  IF t = <<>> THEN "session" ELSE Join(t)

\* the id, were it taken from the number of sessions in the registry
AllocatedId_live == ToString(Cardinality(DOMAIN sessions))

\* pty.rs:414: the id this call takes from the counter
AllocatedId == ToString(next_id)

SessionInfo(id, name, command) == [id |-> id, name |-> name, command |-> command]

Idle == [op |-> "none"]

InitRegistry ==
  /\ next_id = 0
  /\ sessions = [i \in {} |-> 0]
  /\ child = [i \in Ids |-> "none"]
  /\ waiter = [i \in Ids |-> "none"]
  /\ pumpPc = [i \in Ids |-> "none"]
  /\ utf8_carry = [i \in Ids |-> <<>>]
  /\ pumpSession = [i \in Ids |-> None]
  /\ emitted = [i \in Ids |-> <<>>]
  /\ createPc = [i \in Ids |-> "none"]
  /\ createLocal = [i \in Ids |-> Idle]
  /\ closing = {}
  /\ last = Idle
  /\ reads = [i \in Ids |-> <<>>]
  /\ allocated = <<>>
  /\ files = [i \in {} |-> <<>>]
  /\ now = 0
  /\ closeSession = [i \in Ids |-> None]

\* sanitize_recording_id is not being applied
SanitizeIdle ==
  /\ input = <<>>
  /\ out = None
  /\ out_again = None

\* no working directory is being chosen
CwdIdle ==
  /\ cwd_arg = None
  /\ HOME = None
  /\ dirs = {}
  /\ cwd_local = None
  /\ cmd_cwd = None
  /\ info_cwd = None

\* no recording is being loaded
LoadIdle ==
  /\ lines = <<>>
  /\ loaded = None

\* no function is being applied
SaveIdle ==
  /\ state_file = None
  /\ tmp_file = None
  /\ savePc = "idle"
  /\ saveState = None
  /\ savePrev = None
  /\ saveResult = None
  /\ saves = 0
  /\ loadedState = None

ZshIdle ==
  /\ zshOrigFiles = {}
  /\ zshWritten = << >>
  /\ zdotdir = "orig"
  /\ zshPc = "none"
  /\ zshFile = None
  /\ zshSaved = None
  /\ zshSourced = <<>>
  /\ zshLevel = 0

\* A path is the sequence of its components below "/".  The file system the
\* file service works on: the root r the callers declare, with a directory,
\* two files and a symlink that leads out of it; a directory o outside it.
\* The text of a file is one of its classes: "a" and "b" are short texts,
\* "bad" is not UTF-8, "nul" holds a zero byte, "big" exceeds the size limit.
InitialTree ==
  (<<>> :> [kind |-> "dir"]) @@
  (<<"r">> :> [kind |-> "dir"]) @@
  (<<"r", "sub">> :> [kind |-> "dir"]) @@
  (<<"r", "sub", "f">> :> [kind |-> "file", text |-> "bad"]) @@
  (<<"r", "f">> :> [kind |-> "file", text |-> "a"]) @@
  (<<"r", "link">> :> [kind |-> "link", target |-> <<"o">>]) @@
  (<<"o">> :> [kind |-> "dir"]) @@
  (<<"o", "secret">> :> [kind |-> "file", text |-> "a"])

FilesIdle ==
  /\ tree = InitialTree
  /\ fsLast = [op |-> "none"]
  /\ fsCalls = 0

ServicesIdle == SaveIdle /\ ZshIdle /\ FilesIdle

FunctionsIdle == SanitizeIdle /\ CwdIdle /\ LoadIdle /\ ServicesIdle

\* sessions of SpecLock
LockSessions == 1
LockIds == {ToString(i) : i \in 0..(LockSessions - 1)}
\* threads that call commands in SpecLock
MaxCallers == 2
Callers == 1..MaxCallers

\* SpecLock is not running: no session, no call, no pump
ThreadsIdle ==
  /\ lock = None
  /\ registry = {}
  /\ callPc = [c \in Callers |-> "idle"]
  /\ call = [c \in Callers |-> Idle]
  /\ pumpAt = [id \in LockIds |-> "none"]
  /\ ptyIn = [id \in LockIds |-> <<>>]
  /\ unread = [id \in LockIds |-> 0]
  /\ childState = [id \in LockIds |-> "none"]
  /\ kills = [id \in LockIds |-> 0]
  /\ waits = [id \in LockIds |-> 0]
  /\ obtained = [id \in LockIds |-> {}]
  /\ calls = 0
  /\ lockOrder = <<>>
  /\ clock = 0
  /\ recorded = [id \in LockIds |-> <<>>]
  /\ waiterAt = [id \in LockIds |-> "none"]

DecoderIdle ==
  /\ dIn = <<>>
  /\ dKind = "none"
  /\ dExpect = <<>>
  /\ dPos = 0
  /\ dCuts = <<>>
  /\ dCarry = <<>>
  /\ dOut = <<>>
  /\ dDone = FALSE

\* the ids that have been inserted in the registry at some time
Inserted == {i \in Ids : createPc[i] \in {"create_thread", "returned"}}

(***************************************************************************)
(* Recordings.  A file is the sequence of the pieces written to it, each   *)
(* with its size in bytes: the JSON of a meta line, the JSON of an input   *)
(* line, a line feed; a hole is a range never written, a torn piece what   *)
(* is left of a piece partly overwritten.  A string of user data is the    *)
(* sequence of its runs [ch, n], n times the character ch.                 *)
(***************************************************************************)
RECURSIVE Size(_)
Size(f) == IF f = <<>> THEN 0 ELSE Head(f).size + Size(Tail(f))

Hole(n) == [k |-> "hole", size |-> n]
Torn(n) == [k |-> "torn", size |-> n]
NewLine == [k |-> "nl", size |-> 1]

\* the first n bytes of a file, as pieces
RECURSIVE TakeBytes(_, _)
TakeBytes(f, n) ==
  IF n = 0 THEN <<>>
  ELSE IF f = <<>> THEN <<Hole(n)>>
  ELSE IF Head(f).size <= n THEN <<Head(f)>> \o TakeBytes(Tail(f), n - Head(f).size)
  ELSE <<Torn(n)>>

\* a file without its first n bytes, as pieces
RECURSIVE DropBytes(_, _)
DropBytes(f, n) ==
  IF f = <<>> \/ n = 0 THEN f
  ELSE IF Head(f).size <= n THEN DropBytes(Tail(f), n - Head(f).size)
  ELSE <<Torn(Head(f).size - n)>> \o Tail(f)

\* write(2) on a file opened without O_APPEND (pty.rs:625-630): the pieces
\* are written at the descriptor's offset
WriteAt(f, pos, pieces) ==
  TakeBytes(f, pos) \o pieces \o DropBytes(f, pos + Size(pieces))

\* the number of decimal digits of n (the length of its JSON)
Digits(n) == Len(ToString(n))

\* the length of a string in a JSON string literal: serde_json writes a line
\* feed and a carriage return as two bytes each
RECURSIVE EscapedLen(_)
EscapedLen(data) ==
  IF data = <<>> THEN 0
  ELSE Head(data).n * (IF Head(data).ch \in {"LF", "CR"} THEN 2 ELSE 1)
         + EscapedLen(Tail(data))

\* str::contains(ch)
Contains(data, ch) == \E i \in 1..Len(data) : data[i].ch = ch /\ data[i].n > 0

\* pty.rs:68-73: the JSON of RecordingLineV1::Input (recording.rs:17-29),
\* {"type":"input","t":T,"data":"D"}
InputJson(t, data) ==
  [k |-> "input", size |-> 31 + Digits(t) + EscapedLen(data), t |-> t, data |-> data]

\* pty.rs:633-641: the JSON of RecordingLineV1::Meta (recording.rs:7-29),
\* {"type":"meta","schemaVersion":1,"createdAt":T,"projectId":"P",
\* "sessionPersistId":"S","cwd":C} with C null or a string
MetaJson(created_at, project_id, session_persist_id, cwd) ==
  [k |-> "meta",
   size |-> 90 + Digits(created_at) + Len(project_id) + Len(session_persist_id)
              + (IF IsSome(cwd) THEN Len(Unwrap(cwd)) + 2 ELSE 4),
   created_at |-> created_at, project_id |-> project_id,
   session_persist_id |-> session_persist_id, cwd |-> cwd]

\* char::is_ascii_alphanumeric
AsciiAlphanumeric ==
  {"a", "b", "c", "d", "e", "f", "g", "h", "i", "j", "k", "l", "m", "n", "o",
   "p", "q", "r", "s", "t", "u", "v", "w", "x", "y", "z",
   "A", "B", "C", "D", "E", "F", "G", "H", "I", "J", "K", "L", "M", "N", "O",
   "P", "Q", "R", "S", "T", "U", "V", "W", "X", "Y", "Z",
   "0", "1", "2", "3", "4", "5", "6", "7", "8", "9"}

\* SanitizeChar, had it let the dot through
SanitizeChar_dot(ch) ==
  IF ch \in AsciiAlphanumeric \cup {"-", "_", "."} THEN ch ELSE "_"

\* SanitizeChar, had it replaced by a space
SanitizeChar_space(ch) ==
  IF ch \in AsciiAlphanumeric \cup {"-", "_"} THEN ch ELSE " "

\* recording.rs:46-47: the characters kept, the others replaced
SanitizeChar(ch) == IF ch \in AsciiAlphanumeric \cup {"-", "_"} THEN ch ELSE "_"

\* "recording" (recording.rs:42, 50)
Placeholder == <<"r", "e", "c", "o", "r", "d", "i", "n", "g">>

\* sanitize_recording_id without its placeholder
SanitizedChars_nodefault(id) ==
  LET trimmed == Trim(id)
      taken == SubSeq(trimmed, 1, Min(Len(trimmed), 120))
  IN  [i \in 1..Len(taken) |-> SanitizeChar(taken[i])]

\* recording.rs:39-54: the characters of the String returned
SanitizedChars(id) ==
  LET trimmed == Trim(id)
      taken == SubSeq(trimmed, 1, Min(Len(trimmed), 120))
      pushed == [i \in 1..Len(taken) |-> SanitizeChar(taken[i])]
  IN  IF trimmed = <<>> THEN Placeholder
      ELSE IF pushed = <<>> THEN Placeholder
      ELSE pushed

\* recording.rs:39-54
sanitize_recording_id(id) == Join(SanitizedChars(id))

\* std::io::BufWriter::new (pty.rs:632): the capacity of the buffer
BufCapacity == 8192

\* A BufWriter on a file is [buf, pos]: the pieces in its buffer and the
\* offset of its descriptor.  BufWriter::flush_buf on the writer w and the
\* file f; io: whether the writes to the file succeed.  A failed write
\* leaves the buffer and the file as they were.
FlushBuf(w, f, io) ==
  IF w.buf = <<>> THEN [w |-> w, f |-> f, ok |-> TRUE]
  ELSE IF ~io THEN [w |-> w, f |-> f, ok |-> FALSE]
  ELSE [w |-> [buf |-> <<>>, pos |-> w.pos + Size(w.buf)],
        f |-> WriteAt(f, w.pos, w.buf), ok |-> TRUE]

\* BufWriter::write_all of one piece: it goes to the buffer when it fits;
\* otherwise the buffer is written out first, and a piece as large as the
\* buffer is written to the file directly
WriteAll(w, f, piece, io) ==
  IF piece.size < BufCapacity - Size(w.buf)
  THEN [w |-> [w EXCEPT !.buf = Append(@, piece)], f |-> f, ok |-> TRUE]
  ELSE LET r == IF piece.size > BufCapacity - Size(w.buf)
                THEN FlushBuf(w, f, io)
                ELSE [w |-> w, f |-> f, ok |-> TRUE]
       IN  IF ~r.ok THEN r
           ELSE IF piece.size >= BufCapacity
           THEN IF ~io THEN [w |-> r.w, f |-> r.f, ok |-> FALSE]
                ELSE [w |-> [r.w EXCEPT !.pos = @ + piece.size],
                      f |-> WriteAt(r.f, r.w.pos, <<piece>>), ok |-> TRUE]
           ELSE [w |-> [r.w EXCEPT !.buf = Append(@, piece)], f |-> r.f,
                 ok |-> TRUE]

\* the writer of a SessionRecording (pty.rs:32-38)
WriterOf(rec) == [buf |-> rec.buf, pos |-> rec.pos]
WithWriter(rec, w) == [rec EXCEPT !.buf = w.buf, !.pos = w.pos]

\* should_flush, had it not looked at the bytes not yet flushed
should_flush_no_threshold(data, unflushed_bytes, elapsed) ==
  \/ Contains(data, "LF")
  \/ Contains(data, "CR")
  \/ elapsed >= 1500

\* should_flush, had it flushed only after more than 1.5 s
should_flush_later(data, unflushed_bytes, elapsed) ==
  \/ Contains(data, "LF")
  \/ Contains(data, "CR")
  \/ unflushed_bytes >= 16 * 1024
  \/ elapsed > 1500

\* pty.rs:80-83
should_flush(data, unflushed_bytes, elapsed) ==
  \/ Contains(data, "LF")
  \/ Contains(data, "CR")
  \/ unflushed_bytes >= 16 * 1024
  \/ elapsed >= 1500

\* pty.rs:67-90: the recording and its file after the call, and whether the
\* call returned Ok; t0 is the time of the call
record_user_input(rec, f, data, t0, io) ==
  LET json == InputJson(t0 - rec.started_at, data)
      w1 == WriteAll(WriterOf(rec), f, json, io)
      w2 == WriteAll(w1.w, w1.f, NewLine, io)
      counted == rec.unflushed_bytes + json.size + 1
      w3 == FlushBuf(w2.w, w2.f, io)
  IN  IF ~w1.ok THEN [rec |-> WithWriter(rec, w1.w), f |-> w1.f, ok |-> FALSE]
      ELSE IF ~w2.ok THEN [rec |-> WithWriter(rec, w2.w), f |-> w2.f, ok |-> FALSE]
      ELSE IF should_flush(data, counted, t0 - rec.last_flush)
      THEN [rec |-> [WithWriter(rec, w3.w) EXCEPT !.last_flush = t0,
                                                 !.unflushed_bytes = 0],
            f |-> w3.f, ok |-> TRUE]
      ELSE [rec |-> [WithWriter(rec, w2.w) EXCEPT !.unflushed_bytes = counted],
            f |-> w2.f, ok |-> TRUE]

\* a SessionRecording is dropped: the BufWriter writes its buffer out and
\* ignores a failure.  files is the directory of the recordings, by id.
DropRecording(recording, fs, io) ==
  IF ~IsSome(recording) THEN fs
  ELSE LET rec == Unwrap(recording)
       IN  [fs EXCEPT ![rec.id] = FlushBuf(WriterOf(rec), @, io).f]

(***************************************************************************)
(* create_session (pty.rs:335-596)                                         *)
(***************************************************************************)
\* pty.rs:409-412: openpty fails, before an id is taken
CreateOpenPtyFails ==
  /\ last' = [op |-> "create_session", id |-> None, result |-> Err("openpty failed")]
  /\ UNCHANGED <<next_id, sessions, child, waiter, pumpPc, utf8_carry,
                 pumpSession, emitted, createPc, createLocal, closing, reads,
                 allocated>>
  /\ UNCHANGED recVars

\* pty.rs:414, 497-500: the id is taken, then spawn_command fails
CreateSpawnFails ==
  /\ next_id < MaxCreates
  /\ next_id' = next_id + 1
  /\ allocated' = Append(allocated, AllocatedId)
  /\ createPc' = [createPc EXCEPT ![AllocatedId] = "failed"]
  /\ last' = [op |-> "create_session", id |-> Some(AllocatedId),
              result |-> Err("spawn failed")]
  /\ UNCHANGED <<sessions, child, waiter, pumpPc, utf8_carry, pumpSession,
                 emitted, createLocal, closing, reads>>
  /\ UNCHANGED recVars

\* create_session, were the session put in the registry before the reader
\* and the writer are obtained
CreateHandleFails_inserted(step) ==
  /\ next_id < MaxCreates
  /\ next_id' = next_id + 1
  /\ allocated' = Append(allocated, AllocatedId)
  /\ createPc' = [createPc EXCEPT ![AllocatedId] = "failed"]
  /\ child' = [child EXCEPT ![AllocatedId] = "running"]
  /\ sessions' = Insert(sessions, AllocatedId,
                        [name |-> unique_name(sessions, "shell"),
                         command |-> shell, recording |-> None])
  /\ last' = [op |-> "create_session", id |-> Some(AllocatedId),
              result |-> Err(step)]
  /\ UNCHANGED <<waiter, pumpPc, utf8_carry, pumpSession, emitted,
                 createLocal, closing, reads>>
  /\ UNCHANGED recVars

\* pty.rs:414, 497-510: the child is spawned, then try_clone_reader or
\* take_writer fails; the function returns and drops the child handle
CreateHandleFails(step) ==
  /\ next_id < MaxCreates
  /\ next_id' = next_id + 1
  /\ allocated' = Append(allocated, AllocatedId)
  /\ createPc' = [createPc EXCEPT ![AllocatedId] = "failed"]
  /\ child' = [child EXCEPT ![AllocatedId] = "running"]
  /\ last' = [op |-> "create_session", id |-> Some(AllocatedId),
              result |-> Err(step)]
  /\ UNCHANGED <<sessions, waiter, pumpPc, utf8_carry, pumpSession, emitted,
                 createLocal, closing, reads>>
  /\ UNCHANGED recVars

\* pty.rs:349-510: the command is resolved, the pty opened, the id taken,
\* the child spawned and the reader and writer obtained
CreateSpawn(name, command, nu) ==
  /\ next_id < MaxCreates
  /\ next_id' = next_id + 1
  /\ allocated' = Append(allocated, AllocatedId)
  /\ child' = [child EXCEPT ![AllocatedId] = "running"]
  /\ createPc' = [createPc EXCEPT ![AllocatedId] = "create_lock"]
  /\ createLocal' = [createLocal EXCEPT ![AllocatedId] =
                       [base |-> base_trimmed(name, command),
                        command |-> shown_command(command, nu)]]
  /\ last' = Idle
  /\ UNCHANGED <<sessions, waiter, pumpPc, utf8_carry, pumpSession, emitted,
                 closing, reads>>
  /\ UNCHANGED recVars

\* pty.rs:512-516: the lock is poisoned; the function returns and drops the
\* child handle, the reader and the writer
CreateLockFails(id) ==
  /\ createPc[id] = "create_lock"
  /\ createPc' = [createPc EXCEPT ![id] = "failed"]
  /\ createLocal' = [createLocal EXCEPT ![id] = Idle]
  /\ last' = [op |-> "create_session", id |-> Some(id),
              result |-> Err("state poisoned")]
  /\ UNCHANGED <<next_id, sessions, child, waiter, pumpPc, utf8_carry,
                 pumpSession, emitted, closing, reads, allocated>>
  /\ UNCHANGED recVars

\* pty.rs:512-534: under the lock, the name is chosen and the session inserted
CreateInsert(id) ==
  /\ createPc[id] = "create_lock"
  /\ LET final_name == unique_name(sessions, createLocal[id].base)
     IN  /\ sessions' = Insert(sessions, id, [name |-> final_name,
                                              command |-> createLocal[id].command,
                                              recording |-> None])
         /\ createLocal' = [createLocal EXCEPT ![id] =
                              SessionInfo(id, final_name, createLocal[id].command)]
  /\ createPc' = [createPc EXCEPT ![id] = "create_thread"]
  /\ last' = Idle
  /\ UNCHANGED <<next_id, child, waiter, pumpPc, utf8_carry, pumpSession,
                 emitted, closing, reads, allocated>>
  /\ UNCHANGED recVars

\* pty.rs:536-595: the pump thread is started and the SessionInfo returned
CreateStartPump(id) ==
  /\ createPc[id] = "create_thread"
  /\ pumpPc' = [pumpPc EXCEPT ![id] = "read"]
  /\ last' = [op |-> "create_session", id |-> Some(id),
              result |-> Ok(createLocal[id])]
  /\ createPc' = [createPc EXCEPT ![id] = "returned"]
  /\ UNCHANGED <<next_id, sessions, child, waiter, utf8_carry, pumpSession,
                 emitted, createLocal, closing, reads, allocated>>
  /\ UNCHANGED recVars

(***************************************************************************)
(* close_session (pty.rs:736-757)                                          *)
(***************************************************************************)
\* close_session, were it to leave the session in the registry
CloseRemove_keep(id) ==
  /\ UNCHANGED sessions
  /\ IF id \in DOMAIN sessions
     THEN /\ closing' = closing \cup {id}
          /\ closeSession' = [closeSession EXCEPT ![id] = Some(sessions[id])]
          /\ last' = Idle
     ELSE /\ last' = [op |-> "close_session", id |-> Some(id), result |-> Ok("unit")]
          /\ UNCHANGED <<closing, closeSession>>
  /\ UNCHANGED <<next_id, child, waiter, pumpPc, utf8_carry, pumpSession,
                 emitted, createPc, createLocal, reads, allocated>>
  /\ UNCHANGED <<files, now>>

\* close_session, were it to report an id it does not find, as the other
\* commands do
CloseRemove_unknown(id) ==
  /\ sessions' = Remove(sessions, id)
  /\ IF id \in DOMAIN sessions
     THEN /\ closing' = closing \cup {id}
          /\ closeSession' = [closeSession EXCEPT ![id] = Some(sessions[id])]
          /\ last' = Idle
     ELSE /\ last' = [op |-> "close_session", id |-> Some(id),
                      result |-> Err("unknown session")]
          /\ UNCHANGED <<closing, closeSession>>
  /\ UNCHANGED <<next_id, child, waiter, pumpPc, utf8_carry, pumpSession,
                 emitted, createPc, createLocal, reads, allocated>>
  /\ UNCHANGED <<files, now>>

\* pty.rs:737-748: under the lock the session is removed; a call that finds
\* none returns Ok at once
CloseRemove(id) ==
  /\ sessions' = Remove(sessions, id)
  /\ IF id \in DOMAIN sessions
     THEN /\ closing' = closing \cup {id}
          /\ closeSession' = [closeSession EXCEPT ![id] = Some(sessions[id])]
          /\ last' = Idle
     ELSE /\ last' = [op |-> "close_session", id |-> Some(id), result |-> Ok("unit")]
          /\ UNCHANGED <<closing, closeSession>>
  /\ UNCHANGED <<next_id, child, waiter, pumpPc, utf8_carry, pumpSession,
                 emitted, createPc, createLocal, reads, allocated>>
  /\ UNCHANGED <<files, now>>

\* the outcomes of the writes to a recording file: they succeed or fail
IoOutcomes == BOOLEAN

\* pty.rs:750-757: the child is killed, a thread is started to wait on it,
\* and the call returns Ok; the rest of the session is dropped on return
CloseKill(id) ==
  /\ id \in closing
  /\ closing' = closing \ {id}
  /\ closeSession' = [closeSession EXCEPT ![id] = None]
  /\ \E io \in IoOutcomes :
       files' = DropRecording(Unwrap(closeSession[id]).recording, files, io)
  /\ UNCHANGED now
  /\ child' = [child EXCEPT ![id] = IF @ = "running" THEN "killed" ELSE @]
  /\ waiter' = [waiter EXCEPT ![id] = "waiting"]
  /\ last' = [op |-> "close_session", id |-> Some(id), result |-> Ok("unit")]
  /\ UNCHANGED <<next_id, sessions, pumpPc, utf8_carry, pumpSession, emitted,
                 createPc, createLocal, reads, allocated>>

\* pty.rs:753-755: child.wait() in the thread close_session started
WaiterWait(id) ==
  /\ waiter[id] = "waiting"
  /\ child[id] # "running"
  /\ waiter' = [waiter EXCEPT ![id] = "done"]
  /\ last' = Idle
  /\ UNCHANGED <<next_id, sessions, child, pumpPc, utf8_carry, pumpSession,
                 emitted, createPc, createLocal, closing, reads,
                 allocated>>
  /\ UNCHANGED recVars

\* the child process ends on its own
ChildExit(id) ==
  /\ child[id] = "running"
  /\ child' = [child EXCEPT ![id] = "exited"]
  /\ last' = Idle
  /\ UNCHANGED <<next_id, sessions, waiter, pumpPc, utf8_carry, pumpSession,
                 emitted, createPc, createLocal, closing, reads,
                 allocated>>
  /\ UNCHANGED recVars

(***************************************************************************)
(* list, write, resize, recording start and stop: one critical section each *)
(***************************************************************************)
\* the listing, were the command put in the name field
Listing_command(m) == {SessionInfo(i, m[i].command, m[i].command) : i \in DOMAIN m}

\* what list_sessions collects from the map (pty.rs:323-331)
Listing(m) == {SessionInfo(i, m[i].name, m[i].command) : i \in DOMAIN m}

\* pty.rs:317-332
list_sessions ==
  /\ last' = [op |-> "list_sessions", id |-> None, result |-> Ok(Listing(sessions))]
  /\ UNCHANGED <<next_id, sessions, child, waiter, pumpPc, utf8_carry,
                 pumpSession, emitted, createPc, createLocal, closing, reads,
                 allocated>>
  /\ UNCHANGED recVars

\* write_to_session, had it recorded the writes of every source
write_to_session_any_source(id, data, source, written, io) ==
  LET args == [data |-> data, source |-> source]
      return(result, logged) ==
        last' = [op |-> "write_to_session", id |-> Some(id), result |-> result,
                 args |-> args, logged |-> logged]
  IN  /\ IF id \notin DOMAIN sessions
         THEN /\ return(Err("unknown session"), FALSE)
              /\ UNCHANGED <<sessions, files>>
         ELSE IF ~written
         THEN /\ return(Err("write failed"), FALSE)
              /\ UNCHANGED <<sessions, files>>
         ELSE IF IsSome(sessions[id].recording)
         THEN LET rec == Unwrap(sessions[id].recording)
                  r == record_user_input(rec, files[rec.id], data, now, io)
                  written_files == [files EXCEPT ![rec.id] = r.f]
              IN  IF r.ok
                  THEN /\ sessions' = [sessions EXCEPT ![id].recording = Some(r.rec)]
                       /\ files' = written_files
                       /\ return(Ok("unit"), FALSE)
                  ELSE /\ sessions' = [sessions EXCEPT ![id].recording = None]
                       /\ files' = DropRecording(Some(r.rec), written_files, io)
                       /\ return(Ok("unit"), TRUE)
         ELSE /\ return(Ok("unit"), FALSE)
              /\ UNCHANGED <<sessions, files>>
      /\ UNCHANGED <<next_id, child, waiter, pumpPc, utf8_carry, pumpSession,
                     emitted, createPc, createLocal, closing, reads, allocated,
                     now, closeSession>>

\* write_to_session, had it returned the error of the recording
write_to_session_recording_error(id, data, source, written, io) ==
  LET args == [data |-> data, source |-> source]
      return(result, logged) ==
        last' = [op |-> "write_to_session", id |-> Some(id), result |-> result,
                 args |-> args, logged |-> logged]
  IN  /\ IF id \notin DOMAIN sessions
         THEN /\ return(Err("unknown session"), FALSE)
              /\ UNCHANGED <<sessions, files>>
         ELSE IF ~written
         THEN /\ return(Err("write failed"), FALSE)
              /\ UNCHANGED <<sessions, files>>
         ELSE IF source = Some("user") /\ IsSome(sessions[id].recording)
         THEN LET rec == Unwrap(sessions[id].recording)
                  r == record_user_input(rec, files[rec.id], data, now, io)
                  written_files == [files EXCEPT ![rec.id] = r.f]
              IN  IF r.ok
                  THEN /\ sessions' = [sessions EXCEPT ![id].recording = Some(r.rec)]
                       /\ files' = written_files
                       /\ return(Ok("unit"), FALSE)
                  ELSE /\ sessions' = [sessions EXCEPT ![id].recording = None]
                       /\ files' = DropRecording(Some(r.rec), written_files, io)
                       /\ return(Err("write failed"), TRUE)
         ELSE /\ return(Ok("unit"), FALSE)
              /\ UNCHANGED <<sessions, files>>
      /\ UNCHANGED <<next_id, child, waiter, pumpPc, utf8_carry, pumpSession,
                     emitted, createPc, createLocal, closing, reads, allocated,
                     now, closeSession>>

\* pty.rs:677-709; written: whether writer.write_all on the PTY succeeds;
\* io: whether the writes to the recording file succeed.  The response is
\* kept with the data and source of the call and with whether the call
\* logged "Failed to write recording event" (pty.rs:704).
write_to_session(id, data, source, written, io) ==
  LET args == [data |-> data, source |-> source]
      return(result, logged) ==
        last' = [op |-> "write_to_session", id |-> Some(id), result |-> result,
                 args |-> args, logged |-> logged]
  IN  /\ IF id \notin DOMAIN sessions
         THEN /\ return(Err("unknown session"), FALSE)
              /\ UNCHANGED <<sessions, files>>
         ELSE IF ~written
         THEN /\ return(Err("write failed"), FALSE)
              /\ UNCHANGED <<sessions, files>>
         ELSE IF source = Some("user") /\ IsSome(sessions[id].recording)
         THEN LET rec == Unwrap(sessions[id].recording)
                  r == record_user_input(rec, files[rec.id], data, now, io)
                  written_files == [files EXCEPT ![rec.id] = r.f]
              IN  IF r.ok
                  THEN /\ sessions' = [sessions EXCEPT ![id].recording = Some(r.rec)]
                       /\ files' = written_files
                       /\ return(Ok("unit"), FALSE)
                  ELSE /\ sessions' = [sessions EXCEPT ![id].recording = None]
                       /\ files' = DropRecording(Some(r.rec), written_files, io)
                       /\ return(Ok("unit"), TRUE)
         ELSE /\ return(Ok("unit"), FALSE)
              /\ UNCHANGED <<sessions, files>>
      /\ UNCHANGED <<next_id, child, waiter, pumpPc, utf8_carry, pumpSession,
                     emitted, createPc, createLocal, closing, reads, allocated,
                     now, closeSession>>



\* pty.rs:712-733; resized: whether master.resize succeeds
resize_session(id, resized) ==
  /\ last' = [op |-> "resize_session", id |-> Some(id),
              result |-> IF id \notin DOMAIN sessions THEN Err("unknown session")
                         ELSE IF ~resized THEN Err("resize failed")
                         ELSE Ok("unit")]
  /\ UNCHANGED <<next_id, sessions, child, waiter, pumpPc, utf8_carry,
                 pumpSession, emitted, createPc, createLocal, closing, reads,
                 allocated>>
  /\ UNCHANGED recVars

\* start_session_recording, had it opened the file before it looked the
\* session up
start_session_recording_open_first(id, recording_id, project_id, session_persist_id, cwd, fs, io) ==
  LET safe_id == sanitize_recording_id(recording_id)
      args == [recording_id |-> recording_id, fs |-> fs]
      return(result) ==
        last' = [op |-> "start_session_recording", id |-> Some(id),
                 result |-> result, args |-> args]
      fail(e) == /\ return(Err(e))
                 /\ UNCHANGED <<sessions, files>>
      meta == MetaJson(now, project_id, session_persist_id, cwd)
      w1 == WriteAll([buf |-> <<>>, pos |-> 0], <<>>, meta, io)
      w2 == WriteAll(w1.w, w1.f, NewLine, io)
      w3 == FlushBuf(w2.w, w2.f, io)
  IN  /\ IF id \notin DOMAIN sessions
         THEN /\ return(Err("unknown session"))
              /\ files' = Insert(files, safe_id, <<>>)
              /\ UNCHANGED sessions
         ELSE IF IsSome(sessions[id].recording) THEN fail("already recording")
         ELSE IF fs = "no_dir" THEN fail("create dir failed")
         ELSE IF fs = "no_open" THEN fail("open failed")
         ELSE IF ~w1.ok \/ ~w2.ok
         THEN /\ return(Err("write failed"))
              /\ files' = Insert(files, safe_id, IF w1.ok THEN w2.f ELSE w1.f)
              /\ UNCHANGED sessions
         ELSE /\ files' = Insert(files, safe_id, w3.f)
              /\ sessions' = [sessions EXCEPT ![id].recording =
                                Some([id |-> safe_id, buf |-> w3.w.buf,
                                      pos |-> w3.w.pos, started_at |-> now,
                                      last_flush |-> now, unflushed_bytes |-> 0])]
              /\ return(Ok(safe_id))
      /\ UNCHANGED <<next_id, child, waiter, pumpPc, utf8_carry, pumpSession,
                     emitted, createPc, createLocal, closing, reads, allocated,
                     now, closeSession>>

\* start_session_recording, had it not refused a session that is recording
start_session_recording_replace(id, recording_id, project_id, session_persist_id, cwd, fs, io) ==
  LET safe_id == sanitize_recording_id(recording_id)
      args == [recording_id |-> recording_id, fs |-> fs]
      return(result) ==
        last' = [op |-> "start_session_recording", id |-> Some(id),
                 result |-> result, args |-> args]
      fail(e) == /\ return(Err(e))
                 /\ UNCHANGED <<sessions, files>>
      meta == MetaJson(now, project_id, session_persist_id, cwd)
      w1 == WriteAll([buf |-> <<>>, pos |-> 0], <<>>, meta, io)
      w2 == WriteAll(w1.w, w1.f, NewLine, io)
      w3 == FlushBuf(w2.w, w2.f, io)
  IN  /\ IF id \notin DOMAIN sessions THEN fail("unknown session")
         ELSE IF fs = "no_dir" THEN fail("create dir failed")
         ELSE IF fs = "no_open" THEN fail("open failed")
         ELSE IF ~w1.ok \/ ~w2.ok
         THEN /\ return(Err("write failed"))
              /\ files' = Insert(files, safe_id, IF w1.ok THEN w2.f ELSE w1.f)
              /\ UNCHANGED sessions
         ELSE /\ files' = Insert(files, safe_id, w3.f)
              /\ sessions' = [sessions EXCEPT ![id].recording =
                                Some([id |-> safe_id, buf |-> w3.w.buf,
                                      pos |-> w3.w.pos, started_at |-> now,
                                      last_flush |-> now, unflushed_bytes |-> 0])]
              /\ return(Ok(safe_id))
      /\ UNCHANGED <<next_id, child, waiter, pumpPc, utf8_carry, pumpSession,
                     emitted, createPc, createLocal, closing, reads, allocated,
                     now, closeSession>>

\* pty.rs:599-657; fs: whether the recordings directory can be made
\* ("no_dir" if not) and the file opened ("no_open" if not); io: whether the
\* writes to the file succeed.  The response is kept with the recording id
\* and the file-system outcome of the call.
start_session_recording(id, recording_id, project_id, session_persist_id, cwd, fs, io) ==
  LET safe_id == sanitize_recording_id(recording_id)
      args == [recording_id |-> recording_id, fs |-> fs]
      return(result) ==
        last' = [op |-> "start_session_recording", id |-> Some(id),
                 result |-> result, args |-> args]
      fail(e) == /\ return(Err(e))
                 /\ UNCHANGED <<sessions, files>>
      meta == MetaJson(now, project_id, session_persist_id, cwd)
      w1 == WriteAll([buf |-> <<>>, pos |-> 0], <<>>, meta, io)
      w2 == WriteAll(w1.w, w1.f, NewLine, io)
      w3 == FlushBuf(w2.w, w2.f, io)
  IN  /\ IF id \notin DOMAIN sessions THEN fail("unknown session")
         ELSE IF IsSome(sessions[id].recording) THEN fail("already recording")
         ELSE IF fs = "no_dir" THEN fail("create dir failed")
         ELSE IF fs = "no_open" THEN fail("open failed")
         ELSE IF ~w1.ok \/ ~w2.ok
         THEN /\ return(Err("write failed"))
              /\ files' = Insert(files, safe_id, IF w1.ok THEN w2.f ELSE w1.f)
              /\ UNCHANGED sessions
         ELSE /\ files' = Insert(files, safe_id, w3.f)
              /\ sessions' = [sessions EXCEPT ![id].recording =
                                Some([id |-> safe_id, buf |-> w3.w.buf,
                                      pos |-> w3.w.pos, started_at |-> now,
                                      last_flush |-> now, unflushed_bytes |-> 0])]
              /\ return(Ok(safe_id))
      /\ UNCHANGED <<next_id, child, waiter, pumpPc, utf8_carry, pumpSession,
                     emitted, createPc, createLocal, closing, reads, allocated,
                     now, closeSession>>



\* stop_session_recording, had it flushed the recording and left it on the
\* session
stop_session_recording_keep(id, io) ==
  LET return(result) ==
        last' = [op |-> "stop_session_recording", id |-> Some(id),
                 result |-> result]
  IN  /\ IF id \notin DOMAIN sessions
         THEN /\ return(Err("unknown session"))
              /\ UNCHANGED <<sessions, files>>
         ELSE IF ~IsSome(sessions[id].recording)
         THEN /\ return(Ok(None))
              /\ UNCHANGED <<sessions, files>>
         ELSE LET rec == Unwrap(sessions[id].recording)
                  w == FlushBuf(WriterOf(rec), files[rec.id], io)
              IN  /\ sessions' = [sessions EXCEPT ![id].recording =
                                                  Some(WithWriter(rec, w.w))]
                  /\ files' = [files EXCEPT ![rec.id] = w.f]
                  /\ return(Ok(Some(rec.id)))
      /\ UNCHANGED <<next_id, child, waiter, pumpPc, utf8_carry, pumpSession,
                     emitted, createPc, createLocal, closing, reads, allocated,
                     now, closeSession>>

\* pty.rs:660-674; the recording taken from the session is flushed and
\* dropped
stop_session_recording(id, io) ==
  LET return(result) ==
        last' = [op |-> "stop_session_recording", id |-> Some(id),
                 result |-> result]
  IN  /\ IF id \notin DOMAIN sessions
         THEN /\ return(Err("unknown session"))
              /\ UNCHANGED <<sessions, files>>
         ELSE IF ~IsSome(sessions[id].recording)
         THEN /\ return(Ok(None))
              /\ UNCHANGED <<sessions, files>>
         ELSE LET rec == Unwrap(sessions[id].recording)
                  w == FlushBuf(WriterOf(rec), files[rec.id], io)
              IN  /\ sessions' = [sessions EXCEPT ![id].recording = None]
                  /\ files' = DropRecording(Some(WithWriter(rec, w.w)),
                                            [files EXCEPT ![rec.id] = w.f], io)
                  /\ return(Ok(Some(rec.id)))
      /\ UNCHANGED <<next_id, child, waiter, pumpPc, utf8_carry, pumpSession,
                     emitted, createPc, createLocal, closing, reads, allocated,
                     now, closeSession>>


\* time passes
Tick(dt) ==
  /\ now' = now + dt
  /\ last' = Idle
  /\ UNCHANGED <<next_id, sessions, child, waiter, pumpPc, utf8_carry,
                 pumpSession, emitted, createPc, createLocal, closing, reads,
                 allocated, files, closeSession>>


(***************************************************************************)
(* The pump thread of session id (pty.rs:538-588)                          *)
(***************************************************************************)
Output(data) == [event |-> "pty-output", data |-> data]
Exit(code) == [event |-> "pty-exit", exit_code |-> code]

RECURSIVE SumLen(_, _)
SumLen(f, S) ==
  IF S = {} THEN 0
  ELSE LET i == CHOOSE x \in S : TRUE IN Len(f[i]) + SumLen(f, S \ {i})

\* the emission, were the new event put before the earlier ones
EmitOutput_front(events, data) ==
  IF data # <<>> THEN <<Output(data)>> \o events ELSE events

\* pty.rs:546-554: the decoded text, if any, is emitted
EmitOutput(events, data) ==
  IF data # <<>> THEN Append(events, Output(data)) ELSE events

\* pty.rs:542-555: a read returns n > 0 bytes
PumpReadData(id, chunk) ==
  /\ pumpPc[id] = "read"
  /\ SumLen(reads, Ids) < MaxReads
  /\ LET r == decode_utf8_stream(utf8_carry[id], chunk)
     IN  /\ utf8_carry' = [utf8_carry EXCEPT ![id] = r.carry]
         /\ emitted' = [emitted EXCEPT ![id] = EmitOutput(@, r.out)]
  /\ reads' = [reads EXCEPT ![id] = Append(@, chunk)]
  /\ last' = Idle
  /\ UNCHANGED <<next_id, sessions, child, waiter, pumpPc, pumpSession,
                 createPc, createLocal, closing, allocated>>
  /\ UNCHANGED recVars

\* the end of the loop, were the carry dropped
Flush_drop(events, carry) == events

\* pty.rs:560-571: what is left in the carry when the loop ends is emitted
Flush(events, carry) ==
  IF carry # <<>> THEN EmitOutput(events, from_utf8_lossy(carry)) ELSE events

\* the loop ends (pty.rs:543, 556) and the carry is flushed
PumpLeaveLoop(id) ==
  /\ pumpPc[id] = "read"
  /\ emitted' = [emitted EXCEPT ![id] = Flush(@, utf8_carry[id])]
  /\ pumpPc' = [pumpPc EXCEPT ![id] = "reap"]
  /\ last' = Idle
  /\ UNCHANGED <<next_id, sessions, child, waiter, utf8_carry, pumpSession,
                 createPc, createLocal, closing, reads, allocated>>
  /\ UNCHANGED recVars

\* pty.rs:543: the read returns 0 bytes, the child having ended
PumpReadEof(id) ==
  /\ child[id] # "running"
  /\ PumpLeaveLoop(id)

\* pty.rs:556: the read fails while the child is still running
PumpReadErr(id) ==
  /\ child[id] = "running"
  /\ PumpLeaveLoop(id)

\* the reap step, were it to look the session up without removing it
PumpReap_keep(id) ==
  /\ pumpPc[id] = "reap"
  /\ pumpSession' = [pumpSession EXCEPT ![id] =
                       IF id \in DOMAIN sessions THEN Some(sessions[id]) ELSE None]
  /\ UNCHANGED sessions
  /\ pumpPc' = [pumpPc EXCEPT ![id] = "wait"]
  /\ last' = Idle
  /\ UNCHANGED <<next_id, child, waiter, utf8_carry, emitted, createPc,
                 createLocal, closing, reads, allocated>>
  /\ UNCHANGED recVars

\* PumpReap, had the pump emptied the registry
PumpReap_clear(id) ==
  /\ pumpPc[id] = "reap"
  /\ pumpSession' = [pumpSession EXCEPT ![id] =
                       IF id \in DOMAIN sessions THEN Some(sessions[id]) ELSE None]
  /\ sessions' = [k \in {} |-> sessions[k]]
  /\ pumpPc' = [pumpPc EXCEPT ![id] = "wait"]
  /\ last' = Idle
  /\ UNCHANGED <<next_id, child, waiter, utf8_carry, emitted, createPc,
                 createLocal, closing, reads, allocated>>
  /\ UNCHANGED recVars

\* pty.rs:573-576: under the lock, the pump removes its session; the
\* PtySession it obtained is named by its id (its child handle is child[id])
PumpReap(id) ==
  /\ pumpPc[id] = "reap"
  /\ pumpSession' = [pumpSession EXCEPT ![id] =
                       IF id \in DOMAIN sessions THEN Some(sessions[id]) ELSE None]
  /\ sessions' = Remove(sessions, id)
  /\ pumpPc' = [pumpPc EXCEPT ![id] = "wait"]
  /\ last' = Idle
  /\ UNCHANGED <<next_id, child, waiter, utf8_carry, emitted, createPc,
                 createLocal, closing, reads, allocated>>
  /\ UNCHANGED recVars

\* the exit code child.wait() reports
ExitCode(status) == IF status = "exited" THEN 0 ELSE 1

\* PumpExit, had the pump waited on the child whoever removed the session
PumpExit_code(id) ==
  /\ pumpPc[id] = "wait"
  /\ child[id] # "running"
  /\ emitted' = [emitted EXCEPT ![id] = Append(@, Exit(Some(ExitCode(child[id]))))]
  /\ pumpPc' = [pumpPc EXCEPT ![id] = "done"]
  /\ last' = Idle
  /\ pumpSession' = [pumpSession EXCEPT ![id] = None]
  /\ UNCHANGED <<next_id, sessions, child, waiter, utf8_carry,
                 createPc, createLocal, closing, reads, allocated>>
  /\ \E io \in IoOutcomes :
       files' = IF IsSome(pumpSession[id])
                THEN DropRecording(Unwrap(pumpSession[id]).recording, files, io)
                ELSE files
  /\ UNCHANGED <<now, closeSession>>

\* pty.rs:578-587: the pump waits on the child of the session it removed (it
\* does not wait when it removed none), drops the session and emits the exit
\* event
PumpExit(id) ==
  /\ pumpPc[id] = "wait"
  /\ IsSome(pumpSession[id]) => child[id] # "running"
  /\ LET exit_code == IF IsSome(pumpSession[id])
                      THEN Some(ExitCode(child[id])) ELSE None
     IN  emitted' = [emitted EXCEPT ![id] = Append(@, Exit(exit_code))]
  /\ pumpPc' = [pumpPc EXCEPT ![id] = "done"]
  /\ last' = Idle
  /\ pumpSession' = [pumpSession EXCEPT ![id] = None]
  /\ UNCHANGED <<next_id, sessions, child, waiter, utf8_carry,
                 createPc, createLocal, closing, reads, allocated>>
  /\ \E io \in IoOutcomes :
       files' = IF IsSome(pumpSession[id])
                THEN DropRecording(Unwrap(pumpSession[id]).recording, files, io)
                ELSE files
  /\ UNCHANGED <<now, closeSession>>

(***************************************************************************)
(* Spec: the registry under all the commands, with children that write no  *)
(* output (the pumps only see their streams end), no bundled nu beside the *)
(* executable, and a recordings directory in which no file can be opened   *)
(* (recordings that start are in SpecRec).                                 *)
(***************************************************************************)
Init == InitRegistry /\ DecoderIdle /\ FunctionsIdle /\ ThreadsIdle

Next ==
  \/ CreateOpenPtyFails
  \/ CreateSpawnFails
  \/ \E step \in {"clone reader failed", "take writer failed"} :
       CreateHandleFails(step)
  \/ \E name \in NameArgs, command \in CommandArgs :
       CreateSpawn(name, command, FALSE)
  \/ \E id \in Ids : CreateLockFails(id)
  \/ \E id \in Ids : CreateInsert(id)
  \/ \E id \in Ids : CreateStartPump(id)
  \/ \E id \in Ids : CloseRemove(id)
  \/ \E id \in Ids : CloseKill(id)
  \/ list_sessions
  \/ \E id \in Ids, written \in BOOLEAN :
       write_to_session(id, <<[ch |-> "x", n |-> 1]>>, None, written, TRUE)
  \/ \E id \in Ids, resized \in BOOLEAN : resize_session(id, resized)
  \/ \E id \in Ids, rid \in RecordingIds :
       start_session_recording(id, rid, "p", "s", None, "no_open", TRUE)
  \/ \E id \in Ids : stop_session_recording(id, TRUE)
  \/ \E id \in Ids : PumpReadEof(id)
  \/ \E id \in Ids : PumpReadErr(id)
  \/ \E id \in Ids : PumpReap(id)
  \/ \E id \in Ids : PumpExit(id)
  \/ \E id \in Ids : WaiterWait(id)
  \/ \E id \in Ids : ChildExit(id)

Spec == Init /\ [][Next /\ UNCHANGED <<decVars, funVars, lockVars>>]_vars

(***************************************************************************)
(* SpecPump: the life of PumpSessions sessions whose children write        *)
(* output, from create_session to the exit event, under close_session.     *)
(* Once a pump has left its read loop it keeps running: it takes the       *)
(* registry lock, and its wait returns when the child has ended.           *)
(***************************************************************************)
\* number of sessions created in SpecPump
PumpSessions == 1

PumpNext ==
  \/ /\ next_id < PumpSessions
     /\ \E name \in NameArgs, command \in CommandArgs, nu \in BOOLEAN :
          CreateSpawn(name, command, nu)
  \/ \E id \in Ids : CreateInsert(id)
  \/ \E id \in Ids : CreateStartPump(id)
  \/ \E id \in Ids : CloseRemove(id)
  \/ \E id \in Ids : CloseKill(id)
  \/ \E id \in Ids, chunk \in Chunks : PumpReadData(id, chunk)
  \/ \E id \in Ids : PumpReadEof(id)
  \/ \E id \in Ids : PumpReadErr(id)
  \/ \E id \in Ids : PumpReap(id)
  \/ \E id \in Ids : PumpExit(id)
  \/ \E id \in Ids : WaiterWait(id)
  \/ \E id \in Ids : ChildExit(id)

PumpAfterLoop(id) ==
  (PumpReap(id) \/ PumpExit(id)) /\ UNCHANGED <<decVars, funVars, lockVars>>

SpecPump ==
  /\ Init
  /\ [][PumpNext /\ UNCHANGED <<decVars, funVars, lockVars>>]_vars
  /\ \A id \in Ids : WF_vars(PumpAfterLoop(id))

(***************************************************************************)
(* SpecNames: the names in the registry under NameCreates successful       *)
(* create_session calls and the removals by close_session and by the       *)
(* pumps.  A create_session reads the registry only in its critical        *)
(* section, and a removal is one critical section: each is one step here,  *)
(* and the children, the pumps and the events are left out.                *)
(***************************************************************************)
\* number of create_session calls in SpecNames
NameCreates == 4

\* the name arguments of SpecNames: absent, "shell " and "shell-2"
NameInputs == NameArgs \cup {Some(<<"s", "h", "e", "l", "l", "-", "2">>)}

\* pty.rs:414, 512-534, 590-595: a create_session that succeeds; base is the
\* base name it passes to unique_name
NameCreate(name, command) ==
  /\ next_id < NameCreates
  /\ next_id' = next_id + 1
  /\ allocated' = Append(allocated, AllocatedId)
  /\ LET final_name == unique_name(sessions, base_trimmed(name, command))
         shown == shown_command(command, FALSE)
     IN  /\ sessions' = Insert(sessions, AllocatedId,
                               [name |-> final_name, command |-> shown,
                                recording |-> None])
         /\ last' = [op |-> "create_session", id |-> Some(AllocatedId),
                     result |-> Ok(SessionInfo(AllocatedId, final_name, shown)),
                     base |-> base_trimmed(name, command)]
  /\ UNCHANGED <<child, waiter, pumpPc, utf8_carry, pumpSession, emitted,
                 createPc, createLocal, closing, reads>>
  /\ UNCHANGED recVars

\* pty.rs:743, 574: a close_session or a pump removes the session
NameRemove(id) ==
  /\ id \in DOMAIN sessions
  /\ sessions' = Remove(sessions, id)
  /\ last' = Idle
  /\ UNCHANGED <<next_id, child, waiter, pumpPc, utf8_carry, pumpSession,
                 emitted, createPc, createLocal, closing, reads, allocated>>
  /\ UNCHANGED recVars

NamesNext ==
  \/ \E name \in NameInputs : NameCreate(name, None)
  \/ \E id \in DOMAIN sessions : NameRemove(id)

SpecNames == Init /\ [][NamesNext /\ UNCHANGED <<decVars, funVars, lockVars>>]_vars

(***************************************************************************)
(* SpecRec: the recordings of RecSessions sessions, under user and other   *)
(* writes, recording starts and stops, close_session and the passing of    *)
(* time.  The children do not exit on their own: a session leaves the      *)
(* registry by close_session.                                              *)
(* SpecShared: the recordings of SharedSessions sessions that may record   *)
(* to the same file, under user writes of one line that succeed; the       *)
(* sessions are not closed.                                                *)
(***************************************************************************)
\* number of sessions created in SpecRec
RecSessions == 1
\* number of input lines in the recording files and the writers' buffers
\* beyond which SpecRec records no more
MaxRecorded == 2
\* the time at which the clock of SpecRec stops
MaxNow == 1500

\* the recording_id arguments of SpecRec: two that are sanitized to the same
\* id
RecordingInputs == {<<"r", "1">>, <<" ", "r", "1">>}
\* the cwd arguments of start_session_recording
CwdInputs == {None, Some("/work")}
\* the data written: a character, a character and a line feed, a carriage
\* return, a string longer than the writer's buffer
DataInputs ==
  {<<[ch |-> "x", n |-> 1]>>,
   <<[ch |-> "x", n |-> 1], [ch |-> "LF", n |-> 1]>>,
   <<[ch |-> "CR", n |-> 1]>>,
   <<[ch |-> "x", n |-> 9000]>>}
\* the source arguments of write_to_session
SourceInputs == {None, Some("user"), Some("agent")}
\* the outcomes of create_dir_all and open in start_session_recording
FsOutcomes == {"ok", "no_dir", "no_open"}
\* the steps of the clock
TickInputs == {1500}

\* the input lines in a sequence of pieces
InputPieces(f) == {i \in 1..Len(f) : f[i].k = "input"}

\* the sum of the values of a function over a set of its arguments
RECURSIVE SumOf(_, _)
SumOf(f, S) ==
  IF S = {} THEN 0
  ELSE LET x == CHOOSE y \in S : TRUE IN f[x] + SumOf(f, S \ {x})

\* the input lines in the files and in the buffers of the recordings
Recorded ==
  LET inFile == [i \in DOMAIN files |-> Cardinality(InputPieces(files[i]))]
      inBuf == [i \in DOMAIN sessions |->
                  IF IsSome(sessions[i].recording)
                  THEN Cardinality(InputPieces(Unwrap(sessions[i].recording).buf))
                  ELSE 0]
  IN  SumOf(inFile, DOMAIN files) + SumOf(inBuf, DOMAIN sessions)

\* the ids SpecRec calls the commands with: those of its sessions and one
\* that is never allocated
RecIds == {ToString(i) : i \in 0..RecSessions}

RecNext ==
  \/ /\ next_id < RecSessions
     /\ CreateSpawn(None, None, FALSE)
  \/ \E id \in RecIds : CreateInsert(id)
  \/ \E id \in RecIds : CreateStartPump(id)
  \/ \E id \in RecIds : CloseRemove(id)
  \/ \E id \in RecIds : CloseKill(id)
  \/ /\ Recorded < MaxRecorded
     /\ \E id \in RecIds, data \in DataInputs, source \in SourceInputs,
           written \in BOOLEAN, io \in IoOutcomes :
          write_to_session(id, data, source, written, io)
  \/ \E id \in RecIds, rid \in RecordingInputs, cwd \in CwdInputs,
        fs \in FsOutcomes, io \in IoOutcomes :
       start_session_recording(id, rid, "p", "s", cwd, fs, io)
  \/ \E id \in RecIds, io \in IoOutcomes : stop_session_recording(id, io)
  \/ \E id \in RecIds, resized \in BOOLEAN : resize_session(id, resized)
  \/ /\ now < MaxNow
     /\ \E dt \in TickInputs : Tick(dt)

SpecRec == Init /\ [][RecNext /\ UNCHANGED <<decVars, funVars, lockVars>>]_vars

\* number of sessions created in SpecShared
SharedSessions == 2
\* the offset of a recording's descriptor from which on SpecShared records
\* no more input on it
MaxSharedPos == 140

\* the offset of the descriptor of the recording of session id
RecordingPos(id) ==
  IF id \in DOMAIN sessions /\ IsSome(sessions[id].recording)
  THEN Unwrap(sessions[id].recording).pos ELSE 0

SharedNext ==
  \/ /\ next_id < SharedSessions
     /\ CreateSpawn(None, None, FALSE)
  \/ \E id \in Ids : CreateInsert(id)
  \/ \E id \in Ids : CreateStartPump(id)
  \/ \E id \in Ids :
       /\ RecordingPos(id) < MaxSharedPos
       /\ write_to_session(id, <<[ch |-> "x", n |-> 1], [ch |-> "LF", n |-> 1]>>,
                           Some("user"), TRUE, TRUE)
  \/ \E id \in Ids, rid \in RecordingInputs, cwd \in CwdInputs :
       start_session_recording(id, rid, "p", "s", cwd, "ok", TRUE)
  \/ \E id \in Ids : stop_session_recording(id, TRUE)

SpecShared == Init /\ [][SharedNext /\ UNCHANGED <<decVars, funVars, lockVars>>]_vars

(***************************************************************************)
(* SpecDecode: one read loop of a pump (pty.rs:541-571) over a byte stream *)
(* that the reads cut into chunks at any positions.  The stream is the     *)
(* encoding of a text, or a text with one invalid span spliced in, or any  *)
(* sequence of the bytes below.                                            *)
(***************************************************************************)
\* 'A'; continuation bytes; first bytes of 2-, 3- and 4-byte sequences (ED
\* and F0 restrict their second byte); a byte that is never valid
Bytes == {65, 128, 159, 169, 195, 226, 237, 240, 255}
\* 'A', e-acute, the euro sign, U+1F600, U+FFFD: 1 to 4 bytes each
CodePoints == {65, 233, 8364, 128512, 65533}

Texts == UNION {[1..k -> CodePoints] : k \in 1..MaxText}
ShortTexts == {<<>>} \cup {<<c>> : c \in CodePoints}
RawStreams == UNION {[1..k -> Bytes] : k \in 1..MaxBytes}

\* invalid spans that are invalid wherever they stand: a lone continuation
\* byte, a byte that never occurs in UTF-8
LoneSpans == {<<128>>, <<192>>, <<255>>}
\* invalid spans that are the beginning of a sequence cut short by what
\* follows them
CutSpans == {<<195>>, <<226>>, <<226, 130>>, <<240>>, <<240, 159>>,
             <<240, 159, 152>>}

InitDecode ==
  /\ InitRegistry
  /\ FunctionsIdle
  /\ ThreadsIdle
  /\ dPos = 0
  /\ dCuts = <<>>
  /\ dCarry = <<>>
  /\ dOut = <<>>
  /\ dDone = FALSE
  /\ \/ \E t \in Texts :
          /\ dKind = "text"
          /\ dIn = Encode(t)
          /\ dExpect = t
     \/ \E t1 \in ShortTexts, t2 \in ShortTexts, bad \in LoneSpans \cup CutSpans :
          /\ bad \in CutSpans => t2 # <<>>
          /\ dKind = "spliced"
          /\ dIn = Encode(t1) \o bad \o Encode(t2)
          /\ dExpect = t1 \o <<REPLACEMENT>> \o t2
     \/ \E r \in RawStreams :
          /\ dKind = "raw"
          /\ dIn = r
          /\ dExpect = <<>>

\* pty.rs:544-545: a read returns the next n bytes of the stream and they are
\* decoded
DecodeFeed(n) ==
  /\ ~dDone
  /\ dPos + n <= Len(dIn)
  /\ LET r == decode_utf8_stream(dCarry, SubSeq(dIn, dPos + 1, dPos + n))
     IN  /\ dCarry' = r.carry
         /\ dOut' = dOut \o r.out
  /\ dPos' = dPos + n
  /\ dCuts' = Append(dCuts, n)
  /\ UNCHANGED <<dIn, dKind, dExpect, dDone>>

\* DecodeFinish, had the bytes left in the carry been dropped
DecodeFinish_drop ==
  /\ ~dDone
  /\ dPos = Len(dIn)
  /\ dOut' = dOut
  /\ dDone' = TRUE
  /\ UNCHANGED <<dIn, dKind, dExpect, dPos, dCuts, dCarry>>

\* pty.rs:543, 560-571: the stream ends and the carry is decoded lossily
DecodeFinish ==
  /\ ~dDone
  /\ dPos = Len(dIn)
  /\ dOut' = dOut \o (IF dCarry # <<>> THEN from_utf8_lossy(dCarry) ELSE <<>>)
  /\ dDone' = TRUE
  /\ UNCHANGED <<dIn, dKind, dExpect, dPos, dCuts, dCarry>>

DecodeNext ==
  \/ \E n \in 1..(Len(dIn) - dPos) : DecodeFeed(n)
  \/ DecodeFinish

SpecDecode ==
  InitDecode /\ [][DecodeNext /\ UNCHANGED <<regVars, funVars, lockVars>>]_vars

(***************************************************************************)
(* Properties of the decoder (SpecDecode)                                  *)
(***************************************************************************)
IsPrefix(a, b) == Len(a) <= Len(b) /\ SubSeq(b, 1, Len(a)) = a

\* C8: a valid UTF-8 stream cut into chunks at any byte positions decodes to
\* the original text: at every point the output is the part of the text whose
\* bytes are complete, the carry is the rest of the bytes fed (so no U+FFFD
\* is emitted that the text does not contain), and after the last chunk the
\* output is the whole text and the carry is empty.
C8_ValidStreamRoundTrip ==
  dKind = "text" =>
    /\ IsPrefix(dOut, dExpect)
    /\ Encode(dOut) \o dCarry = SubSeq(dIn, 1, dPos)
    /\ dPos = Len(dIn) => dOut = dExpect /\ dCarry = <<>>

\* a 4-byte code point was fed as a 1-byte chunk, then a 3-byte chunk
C8_Witness ==
  /\ dKind = "text"
  /\ dExpect = <<128512>>
  /\ dCuts = <<1, 3>>
  /\ dOut = <<128512>>

\* C9: a stream that is valid text around one invalid span decodes, however
\* it is cut into chunks, to the text before the span, exactly one U+FFFD,
\* and the text after the span, with nothing left in the carry.
C9_OneReplacementPerInvalidSpan ==
  dKind = "spliced" /\ dPos = Len(dIn) => dOut = dExpect /\ dCarry = <<>>

\* one invalid byte followed by 'A', fed as one chunk
C9_Witness ==
  /\ dKind = "spliced"
  /\ dIn = <<255, 65>>
  /\ dCuts = <<2>>
  /\ dOut = <<REPLACEMENT, 65>>

(***************************************************************************)
(* Properties of the registry (Spec)                                       *)
(***************************************************************************)
\* the step just taken was the return of close_session(id)
CloseReturned(id) == last.op = "close_session" /\ last.id = Some(id)

\* a close_session has removed the session id
RemovedByClose(id) == id \in closing \/ waiter[id] # "none"

\* the pump of id has done its reap step
Reaped(id) == pumpPc[id] \in {"wait", "done"}

\* C1: no two sessions in the registry have the same name.
C1_UniqueLiveNames ==
  \A i, j \in DOMAIN sessions : i # j => sessions[i].name # sessions[j].name

\* two sessions created with the same base name are in the registry
C1_Witness ==
  \E i, j \in DOMAIN sessions :
    sessions[i].name = "shell" /\ sessions[j].name = "shell-2"

\* C2: the ids create_session has allocated are pairwise distinct.
C2_IdsNeverReused ==
  \A m, n \in 1..Len(allocated) : m # n => allocated[m] # allocated[n]

\* a second id was allocated after the first session had been removed
C2_Witness ==
  /\ Len(allocated) = 2
  /\ createPc[allocated[1]] = "returned"
  /\ allocated[1] \notin DOMAIN sessions
  /\ allocated[2] \in DOMAIN sessions

\* C3 as stated: once close_session(id) has returned, id is not in the
\* registry afterwards.
C3_AbsentAfterAnyClose ==
  [][\A id \in Ids : CloseReturned(id) => id \notin DOMAIN sessions']_vars

\* C3, amended: once close_session(id) has returned for an id that had been
\* inserted in the registry when it was called, id is not in the registry
\* and never is again (an id that was inserted and has left the registry
\* does not come back); a write, resize or recording start on an id that is
\* not in the registry fails with "unknown session", and a listing has no
\* entry for it.
C3_AbsentAfterClose ==
  /\ [](\A id \in Ids :
          CloseReturned(id) /\ id \in Inserted => id \notin DOMAIN sessions)
  /\ [][\A id \in Ids :
          id \in Inserted /\ id \notin DOMAIN sessions
            => id \notin DOMAIN sessions']_vars
  /\ [](/\ last.op \in {"write_to_session", "resize_session",
                        "start_session_recording"}
           /\ Unwrap(last.id) \notin DOMAIN sessions
           => last.result = Err("unknown session"))
  /\ [](last.op = "list_sessions"
           => \A e \in last.result.val : e.id \in DOMAIN sessions)

\* a write on a closed id fails while the waiting thread and the pump of the
\* session are still running
C3_Witness ==
  \E id \in Ids :
    /\ waiter[id] = "waiting"
    /\ pumpPc[id] = "read"
    /\ last.op = "write_to_session"
    /\ last.id = Some(id)
    /\ last.result = Err("unknown session")

\* C6: every close_session returns Ok, and a close_session that finds no
\* session (already closed, reaped, or never created) changes nothing and
\* kills nothing.
C6_CloseAlwaysOk ==
  /\ [](last.op = "close_session" => last.result = Ok("unit"))
  /\ [][last'.op = "close_session" /\ closing' = closing
          => UNCHANGED <<next_id, sessions, child, waiter, pumpPc, utf8_carry,
                         pumpSession, emitted, createPc, createLocal, closing,
                         reads, allocated, recVars>>]_vars

\* a close_session on an id that was never created has returned
C6_Witness ==
  \E id \in Ids :
    /\ CloseReturned(id)
    /\ createPc[id] = "none"
    /\ last.result = Ok("unit")

\* C7: a listing has exactly one entry per session in the registry, with the
\* session's name and command; for an id whose create_session has returned
\* and which neither a close_session nor its pump has removed, the one entry
\* is the SessionInfo create_session returned.
C7_ListMatchesRegistry ==
  last.op = "list_sessions" =>
    LET entries == last.result.val
    IN  /\ last.result.ok
        /\ {e.id : e \in entries} = DOMAIN sessions
        /\ Cardinality(entries) = Cardinality(DOMAIN sessions)
        /\ \A e \in entries : /\ e.name = sessions[e.id].name
                              /\ e.command = sessions[e.id].command
        /\ \A id \in Ids :
             createPc[id] = "returned" /\ ~RemovedByClose(id) /\ ~Reaped(id)
               => {e \in entries : e.id = id} = {createLocal[id]}

\* a listing of two sessions whose create_session has returned
C7_Witness ==
  /\ last.op = "list_sessions"
  /\ Cardinality(last.result.val) = 2
  /\ \A id \in Ids : createPc[id] = "returned" /\ id \in DOMAIN sessions

(***************************************************************************)
(* Properties of the output pump (SpecPump)                                *)
(***************************************************************************)
\* the events of a sequence that have the given name
RECURSIVE EventsNamed(_, _)
EventsNamed(events, name) ==
  IF events = <<>> THEN <<>>
  ELSE (IF Head(events).event = name THEN <<Head(events)>> ELSE <<>>)
         \o EventsNamed(Tail(events), name)

\* the number of exit events emitted for id
ExitCount(id) == Len(EventsNamed(emitted[id], "pty-exit"))

\* the texts of the output events emitted for id, in order
OutputData(id) ==
  LET outs == EventsNamed(emitted[id], "pty-output")
  IN  [k \in 1..Len(outs) |-> outs[k].data]

RECURSIVE Concat(_)
Concat(seqs) == IF seqs = <<>> THEN <<>> ELSE Head(seqs) \o Concat(Tail(seqs))

\* the read loop of the pump of id has ended
LoopEnded(id) == pumpPc[id] \in {"reap", "wait", "done"}

\* the text each read of a sequence of reads decodes to, the reads that
\* decode to no text left out
RECURSIVE DecodedReads(_, _)
DecodedReads(carry, chunks) ==
  IF chunks = <<>> THEN <<>>
  ELSE LET r == decode_utf8_stream(carry, Head(chunks))
       IN  (IF r.out # <<>> THEN <<r.out>> ELSE <<>>)
             \o DecodedReads(r.carry, Tail(chunks))

C5_OutputInReadOrder ==
  \A id \in Ids :
    /\ OutputData(id) =
         DecodedReads(<<>>, reads[id])
           \o (IF LoopEnded(id) /\ utf8_carry[id] # <<>>
               THEN <<from_utf8_lossy(utf8_carry[id])>> ELSE <<>>)
    /\ \A k \in 1..Len(emitted[id]) :
         emitted[id][k].event = "pty-exit" => k = Len(emitted[id])

\* two reads gave two different output events, and the exit event follows
C5_Witness ==
  \E id \in Ids :
    /\ Len(reads[id]) = 2
    /\ Len(emitted[id]) = 3
    /\ emitted[id][1].event = "pty-output"
    /\ emitted[id][2].event = "pty-output"
    /\ emitted[id][1] # emitted[id][2]
    /\ emitted[id][3].event = "pty-exit"

\* C10: when the read loop has ended with a non-empty carry, the last output
\* event of the session is the lossy decoding of the carry, and it precedes
\* the exit event; the output events together are the lossy decoding of all
\* the bytes read.
C10_CarryFlushedBeforeExit ==
  \A id \in Ids :
    LoopEnded(id) =>
      /\ utf8_carry[id] # <<>> =>
           LET n == Len(emitted[id]) - ExitCount(id)
           IN  /\ n >= 1
               /\ emitted[id][n] = Output(from_utf8_lossy(utf8_carry[id]))
      /\ Concat(OutputData(id)) = from_utf8_lossy(Concat(reads[id]))

\* a read ended inside a code point: the carried byte was emitted as U+FFFD
\* after the text before it, and the exit event came after
C10_Witness ==
  \E id \in Ids :
    /\ pumpPc[id] = "done"
    /\ reads[id] = <<<<65>>, <<195>>>>
    /\ utf8_carry[id] = <<195>>
    /\ emitted[id][2] = Output(<<REPLACEMENT>>)
    /\ Len(emitted[id]) = 3

(***************************************************************************)
(* Properties of create_session (Spec)                                     *)
(***************************************************************************)
\* C12: a create_session that fails leaves the registry as it was and
\* starts no pump; the id it consumed stays failed, is never in the
\* registry, has no pump and no event is ever emitted for it.
C12_FailedCreateLeavesNothing ==
  /\ [](\A id \in Ids :
          createPc[id] = "failed"
            => /\ id \notin DOMAIN sessions
               /\ pumpPc[id] = "none"
               /\ emitted[id] = <<>>)
  /\ [][\A id \in Ids : createPc[id] = "failed" => createPc'[id] = "failed"]_vars
  /\ [][last'.op = "create_session" /\ ~last'.result.ok
          => /\ sessions' = sessions
             /\ pumpPc' = pumpPc
             /\ emitted' = emitted]_vars

\* a create_session has just failed at take_writer, after spawning its
\* child, while the other session is in the registry
C12_Witness ==
  \E id, other \in Ids :
    /\ createPc[id] = "failed"
    /\ child[id] = "running"
    /\ other \in DOMAIN sessions
    /\ last.op = "create_session"
    /\ last.result = Err("take writer failed")

(***************************************************************************)
(* Properties of the names (SpecNames)                                     *)
(***************************************************************************)
\* C11: the name a create_session assigns for base name B is B when no
\* session in the registry at that time is named B, and otherwise B-n for
\* the smallest n >= 2 such that no session in the registry is named B-n;
\* only the names of the sessions in the registry count.
C11_SmallestFreeSuffix ==
  [][next_id' = next_id + 1 /\ last'.op = "create_session" /\ last'.result.ok
       => LET taken == {sessions[i].name : i \in DOMAIN sessions}
              B == last'.base
              assigned == last'.result.val.name
              Numbered(n) == B \o "-" \o ToString(n)
          IN  /\ sessions'[Unwrap(last'.id)].name = assigned
              /\ IF B \notin taken THEN assigned = B
                 ELSE \E n \in 2..(NameCreates + 1) :
                        /\ assigned = Numbered(n)
                        /\ assigned \notin taken
                        /\ \A m \in 2..(n - 1) : Numbered(m) \in taken]_vars

\* three creates with base "shell" were named shell, shell-2 and shell-3;
\* the first was removed and a fourth create was named shell again
C11_Witness ==
  /\ DOMAIN sessions = {"1", "2", "3"}
  /\ sessions["1"].name = "shell-2"
  /\ sessions["2"].name = "shell-3"
  /\ sessions["3"].name = "shell"

(***************************************************************************)
(* Properties of the recordings of one session (SpecRec)                   *)
(***************************************************************************)

\* the commands that look a session up by its id and fail without it
ByIdOps == {"write_to_session", "resize_session", "start_session_recording",
            "stop_session_recording"}

\* C13: write_to_session, resize_session, start_session_recording and
\* stop_session_recording called with an id that is not in the registry
\* return 'unknown session' and leave the registry (the recording state of
\* every session with it) and every recording file as they were: a failed
\* start neither creates nor truncates a file.
C13_UnknownSessionChangesNothing ==
  [][(last'.op \in ByIdOps /\ Unwrap(last'.id) \notin DOMAIN sessions)
       => /\ last'.result = Err("unknown session")
          /\ sessions' = sessions
          /\ files' = files]_vars

\* a recording was started on a session and the session closed; a start
\* with the same recording id and the closed session's id has just failed,
\* and the file still holds its meta line
C13_Witness ==
  /\ last.op = "start_session_recording"
  /\ last.result = Err("unknown session")
  /\ createPc[Unwrap(last.id)] = "returned"
  /\ sanitize_recording_id(last.args.recording_id) \in DOMAIN files
  /\ files[sanitize_recording_id(last.args.recording_id)] # <<>>

\* C14: start_session_recording on a session that has an active recording
\* fails with 'already recording' and leaves that recording (its id, its
\* writer and flush bookkeeping) and every file as they were; a session holds
\* at most one recording at any time.
C14_AlreadyRecordingKeepsRecording ==
  [][(/\ last'.op = "start_session_recording"
      /\ Unwrap(last'.id) \in DOMAIN sessions
      /\ IsSome(sessions[Unwrap(last'.id)].recording))
       => /\ last'.result = Err("already recording")
          /\ sessions' = sessions
          /\ files' = files]_vars

\* a start has just been refused on a session whose recording holds an
\* input line not yet flushed
C14_Witness ==
  /\ last.op = "start_session_recording"
  /\ last.result = Err("already recording")
  /\ \E id \in DOMAIN sessions :
       /\ last.id = Some(id)
       /\ IsSome(sessions[id].recording)
       /\ InputPieces(Unwrap(sessions[id].recording).buf) # {}

\* whether the sequence of pieces b ends with the pieces of a
EndsWith(b, a) ==
  /\ Len(a) <= Len(b)
  /\ SubSeq(b, Len(b) - Len(a) + 1, Len(b)) = a

\* what the recording of session id holds: its file and, after it, what its
\* writer has buffered
Content(id) ==
  LET rec == Unwrap(sessions[id].recording) IN files[rec.id] \o rec.buf

\* the number of bytes the writer of a recording has taken: those it has
\* written to its descriptor and those in its buffer
Taken(rec) == rec.pos + Size(rec.buf)

\* after the step the line json is in the writer's buffer or in the file f,
\* and its newline after it
LinePlaced(buf, f, json) ==
  \/ EndsWith(buf, <<json, NewLine>>)
  \/ \E i \in 1..Len(f) :
       /\ f[i] = json
       /\ \/ EndsWith(buf, <<NewLine>>)
          \/ i < Len(f) /\ f[i + 1] = NewLine

\* C17: an input line is added to a session's recording only by a
\* write_to_session on that session whose source is exactly "user", while
\* the recording is active and after the PTY write succeeded: only such a
\* step changes the state of an active recording, and it makes the writer
\* take exactly the input line of the data.  A write with another or no
\* source, a write whose PTY write failed and a write on a session without
\* a recording add nothing and leave the sessions, their recordings and the
\* files as they were.
C17_OnlyUserWritesAreRecorded ==
  [][/\ (/\ last'.op = "write_to_session"
         /\ \/ last'.args.source # Some("user")
            \/ ~last'.result.ok
            \/ ~IsSome(sessions[Unwrap(last'.id)].recording))
          => /\ sessions' = sessions
             /\ files' = files
     /\ \A id \in DOMAIN sessions \cap DOMAIN sessions' :
          (/\ IsSome(sessions[id].recording)
           /\ IsSome(sessions'[id].recording)
           /\ sessions'[id].recording # sessions[id].recording)
            => LET rec == Unwrap(sessions[id].recording)
                   after == Unwrap(sessions'[id].recording)
                   json == InputJson(now - rec.started_at, last'.args.data)
               IN  /\ last'.op = "write_to_session"
                   /\ last'.id = Some(id)
                   /\ last'.args.source = Some("user")
                   /\ last'.result = Ok("unit")
                   /\ after.id = rec.id
                   /\ Taken(after) = Taken(rec) + json.size + 1
                   /\ LinePlaced(after.buf, files'[rec.id], json)]_vars

\* a write of an agent has just succeeded on a session whose recording
\* holds one input line of the user and nothing else after the meta line
C17_Witness ==
  /\ last.op = "write_to_session"
  /\ last.args.source = Some("agent")
  /\ last.result = Ok("unit")
  /\ \E id \in DOMAIN sessions :
       /\ last.id = Some(id)
       /\ IsSome(sessions[id].recording)
       /\ Cardinality(InputPieces(Content(id))) = 1

\* The step is a user write that recorded a line on session id: what C18
\* requires of it, given what it requires of the line when nothing is
\* flushed.  The flush is written out unless the write to the file fails,
\* which leaves the file as it was.
RecordedAsRequired(id, Buffered(_, _)) ==
  LET rec == Unwrap(sessions[id].recording)
      after == Unwrap(sessions'[id].recording)
      data == last'.args.data
      json == InputJson(now - rec.started_at, data)
      counted == rec.unflushed_bytes + json.size + 1
      flushes == \/ \E i \in 1..Len(data) : data[i].ch \in {"LF", "CR"}
                 \/ counted >= 16384
                 \/ now - rec.last_flush >= 1500
  IN  IF flushes
      THEN /\ after.unflushed_bytes = 0
           /\ after.last_flush = now
           /\ after.buf = <<>> \/ files' = files
      ELSE /\ after.unflushed_bytes = counted
           /\ after.last_flush = rec.last_flush
           /\ Buffered(after.buf, json)

\* the user writes that recorded a line
RecordingWrite(id) ==
  /\ last'.op = "write_to_session"
  /\ last'.id = Some(id)
  /\ last'.args.source = Some("user")
  /\ last'.result.ok
  /\ id \in DOMAIN sessions
  /\ IsSome(sessions[id].recording)
  /\ IsSome(sessions'[id].recording)

\* the whole line is in the buffer
LineBuffered(buf, json) == EndsWith(buf, <<json, NewLine>>)

\* the end of the line is in the buffer, and the whole line if its JSON is
\* shorter than the buffer
LineEndBuffered(buf, json) ==
  /\ EndsWith(buf, <<NewLine>>)
  /\ json.size < BufCapacity => LineBuffered(buf, json)

StartSucceeds ==
  (/\ last'.op = "start_session_recording"
   /\ Unwrap(last'.id) \in DOMAIN sessions
   /\ ~IsSome(sessions[Unwrap(last'.id)].recording)
   /\ last'.args.fs = "ok")
    => /\ last'.result = Ok(sanitize_recording_id(last'.args.recording_id))
       /\ IsSome(sessions'[Unwrap(last'.id)].recording)

\* C19: when recording the input of a user write fails, write_to_session
\* logs it and still returns success, the session's recording becomes absent
\* and nothing else of the session, of its child or of its pump changes; a
\* session in the registry never answers 'unknown session', and a new
\* recording can be started on it.
C19_RecordingFailureDropsRecordingOnly ==
  [][/\ \A id \in DOMAIN sessions :
          (/\ last'.op = "write_to_session"
           /\ last'.id = Some(id)
           /\ \/ last'.logged
              \/ IsSome(sessions[id].recording) /\ ~IsSome(sessions'[id].recording))
            => /\ last'.logged
               /\ last'.args.source = Some("user")
               /\ last'.result = Ok("unit")
               /\ IsSome(sessions[id].recording)
               /\ sessions' = [sessions EXCEPT ![id].recording = None]
               /\ UNCHANGED <<child, waiter, pumpPc, pumpSession, closing>>
     /\ (last'.op \in ByIdOps /\ Unwrap(last'.id) \in DOMAIN sessions)
          => last'.result # Err("unknown session")
     /\ StartSucceeds]_vars

\* a user write has just returned success and logged that its input could
\* not be recorded; the session is in the registry without a recording
C19_Witness ==
  /\ last.op = "write_to_session"
  /\ last.logged
  /\ last.result = Ok("unit")
  /\ \E id \in DOMAIN sessions :
       /\ last.id = Some(id)
       /\ ~IsSome(sessions[id].recording)

\* C20: stop_session_recording on a session with an active recording
\* writes what the writer has buffered to the file, at the writer's offset
\* (unless the write fails),
\* leaves the session without a recording and returns the recording's
\* sanitized id; the file stays, with all it held.  On a session without a
\* recording it returns an empty result, not an error, and changes nothing.
\* After a stop a start on the session succeeds again.
C20_StopFlushesAndDetaches ==
  [][/\ (last'.op = "stop_session_recording" /\ Unwrap(last'.id) \in DOMAIN sessions)
          => LET id == Unwrap(last'.id)
                 recording == sessions[id].recording
             IN  IF IsSome(recording)
                 THEN LET rec == Unwrap(recording)
                      IN  /\ last'.result = Ok(Some(rec.id))
                          /\ rec.id \in {sanitize_recording_id(r) : r \in RecordingInputs}
                          /\ sessions' = [sessions EXCEPT ![id].recording = None]
                          /\ DOMAIN files' = DOMAIN files
                          /\ \A f \in DOMAIN files \ {rec.id} : files'[f] = files[f]
                          /\ \/ files'[rec.id] = WriteAt(files[rec.id], rec.pos, rec.buf)
                             \/ files'[rec.id] = files[rec.id]
                 ELSE /\ last'.result = Ok(None)
                      /\ sessions' = sessions
                      /\ files' = files
     /\ (last.op = "stop_session_recording" /\ last.result.ok) => StartSucceeds]_vars

\* a recording has just been stopped: the result is its sanitized id r1, the
\* session has no recording, and the file r1 ends with an input line without
\* a line feed or carriage return that, no time having passed, only the stop
\* can have written out
C20_Witness ==
  /\ now = 0
  /\ last.op = "stop_session_recording"
  /\ last.result = Ok(Some("r1"))
  /\ \E id \in DOMAIN sessions :
       /\ last.id = Some(id)
       /\ ~IsSome(sessions[id].recording)
  /\ "r1" \in DOMAIN files
  /\ \E i \in InputPieces(files["r1"]) :
       /\ files["r1"][i].data = <<[ch |-> "x", n |-> 1]>>
       /\ i + 1 = Len(files["r1"])

(***************************************************************************)
(* Properties of the recordings of sessions that share a file (SpecShared) *)
(***************************************************************************)

\* C15: while a recording is active its file only grows: over any step of
\* any command on any session (a start of a recording on another session
\* included) the file's earlier content is a prefix of its later content;
\* and stop_session_recording never deletes or truncates a file.
C15_AppendOnlyWhileActive ==
  [][/\ \A id \in DOMAIN sessions :
          (/\ IsSome(sessions[id].recording)
           /\ id \in DOMAIN sessions'
           /\ IsSome(sessions'[id].recording))
            => LET rid == Unwrap(sessions[id].recording).id
               IN  /\ rid \in DOMAIN files'
                   /\ IsPrefix(files[rid], files'[rid])
     /\ last'.op = "stop_session_recording"
          => \A f \in DOMAIN files :
               /\ f \in DOMAIN files'
               /\ IsPrefix(files[f], files'[f])]_vars

\* a file that begins with one whole meta line and holds nothing but input
\* lines after it
MetaLineFirst(f) ==
  /\ Len(f) >= 2
  /\ f[1].k = "meta"
  /\ f[2].k = "nl"
  /\ \A i \in 3..Len(f) : f[i].k \in {"input", "nl"}

\* C16: the file of an active recording begins with exactly one meta line,
\* written and flushed before the recording became active, and everything
\* after that line is input lines, whatever the interleaving of the starts
\* and the user writes.
C16_MetaLineFirst ==
  \A id \in DOMAIN sessions :
    IsSome(sessions[id].recording)
      => MetaLineFirst(files[Unwrap(sessions[id].recording).id])

(***************************************************************************)
(* SpecSanitize: sanitize_recording_id (recording.rs:39-54) applied to an  *)
(* input and then to what it returned.  The inputs are all the strings of  *)
(* up to MaxIdLen of the characters below, the example "../../etc", and    *)
(* strings around the limit of 120 characters.                             *)
(***************************************************************************)
\* longest of the short inputs
MaxIdLen == 3

\* letters, a digit, the two other characters kept, a dot, a path separator,
\* white space, a letter outside ASCII
IdChars == {"a", "Z", "7", "-", "_", ".", "/", " ", "U+E9"}

\* the strings of exactly n characters
RECURSIVE IdStrings(_)
IdStrings(n) ==
  IF n = 0 THEN {<<>>}
  ELSE {Append(cs, ch) : cs \in IdStrings(n - 1), ch \in IdChars}

ShortInputs == UNION {IdStrings(n) : n \in 0..MaxIdLen}

\* n times the character ch
Repeat(ch, n) == [i \in 1..n |-> ch]

\* what the long inputs begin and end with
IdEnds == {<<>>, <<" ">>, <<"/">>, <<"b">>, <<"\t", "U+A0">>}

\* inputs of 119 to 123 characters
LongInputs ==
  {pre \o Repeat(ch, n) \o post :
     pre \in IdEnds, post \in IdEnds, ch \in {"a", "/", " "}, n \in {119, 120, 121}}

SanitizeInputs ==
  ShortInputs \cup LongInputs \cup {<<".", ".", "/", ".", ".", "/", "e", "t", "c">>}

InitSanitize ==
  /\ InitRegistry
  /\ DecoderIdle
  /\ ThreadsIdle
  /\ input \in SanitizeInputs
  /\ out = None
  /\ out_again = None
  /\ CwdIdle
  /\ LoadIdle
  /\ ServicesIdle

\* sanitize_recording_id(input)
Sanitize ==
  /\ out = None
  /\ out' = Some(SanitizedChars(input))
  /\ UNCHANGED <<input, out_again, cwdVars, loadVars, svcVars>>

\* sanitize_recording_id of what the first call returned
SanitizeAgain ==
  /\ IsSome(out)
  /\ out_again = None
  /\ out_again' = Some(SanitizedChars(Unwrap(out)))
  /\ UNCHANGED <<input, out, cwdVars, loadVars, svcVars>>

SanitizeNext == Sanitize \/ SanitizeAgain

SpecSanitize ==
  InitSanitize /\ [][SanitizeNext /\ UNCHANGED <<regVars, decVars, lockVars>>]_vars

(***************************************************************************)
(* Properties of sanitize_recording_id (SpecSanitize)                      *)
(***************************************************************************)
\* the characters a sanitized id may hold
IdAllowed == AsciiAlphanumeric \cup {"-", "_"}

\* o is cs with every character that is not allowed replaced by '_', in
\* place, cut after 120 characters
ReplacedInPlace(cs, o) ==
  /\ Len(o) = Min(Len(cs), 120)
  /\ \A i \in 1..Len(o) : o[i] = IF cs[i] \in IdAllowed THEN cs[i] ELSE "_"

\* what C21 requires of every result
WellFormedId(o) ==
  /\ Len(o) >= 1
  /\ Len(o) <= 120
  /\ \A i \in 1..Len(o) : o[i] \in IdAllowed
  /\ \A i \in 1..Len(o) : o[i] \notin {"/", "\\", "."}

\* C21 as stated: for every input the result is not empty, has at most 120
\* characters, all of them ASCII letters, digits, '-' or '_', and is the
\* input with every other character replaced by '_' in place; "../../etc"
\* gives "______etc".
C21_SanitizedInPlace ==
  IsSome(out)
    => /\ WellFormedId(Unwrap(out))
       /\ input # <<>> => ReplacedInPlace(input, Unwrap(out))

\* C21, amended: the same, the replacement being in place in the input
\* without its leading and trailing white space; an input with nothing but
\* white space has no character to replace.
C21_SanitizedInPlaceAfterTrim ==
  IsSome(out)
    => /\ WellFormedId(Unwrap(out))
       /\ \A first, final \in 1..Len(input) :
            (/\ first <= final
             /\ input[first] \notin WhiteSpace
             /\ input[final] \notin WhiteSpace
             /\ \A i \in 1..Len(input) :
                  (i < first \/ i > final) => input[i] \in WhiteSpace)
              => ReplacedInPlace(SubSeq(input, first, final), Unwrap(out))
       /\ input = <<".", ".", "/", ".", ".", "/", "e", "t", "c">>
            => Join(Unwrap(out)) = "______etc"

\* an input of 123 characters between white space, path separators inside,
\* has been cut to 120 and sanitized
C21_Witness ==
  /\ Len(input) = 123
  /\ input[1] \in WhiteSpace
  /\ input[2] = "/"
  /\ input[122] \notin WhiteSpace
  /\ IsSome(out)
  /\ Len(Unwrap(out)) = 120
  /\ Unwrap(out)[1] = "_"

\* every character of cs is in S
AllIn(cs, S) == \A i \in 1..Len(cs) : cs[i] \in S

\* the characters of the inputs that are not allowed
IdInvalid == (IdChars \cup WhiteSpace) \ IdAllowed

\* C22 as stated: the result is the placeholder "recording" for the empty
\* input and for an input made only of characters that are not allowed.
C22_PlaceholderForInvalid ==
  (IsSome(out) /\ AllIn(input, IdInvalid))
    => Unwrap(out) = Placeholder

\* C22, amended: the result is the placeholder "recording" for the empty
\* input and for an input made only of white space; an input made only of
\* characters that are not allowed, one of them not white space, gives
\* underscores, which is not the placeholder.
C22_PlaceholderForBlank ==
  IsSome(out)
    => /\ AllIn(input, WhiteSpace) => Unwrap(out) = Placeholder
       /\ (AllIn(input, IdInvalid) /\ ~AllIn(input, WhiteSpace))
            => /\ AllIn(Unwrap(out), {"_"})
               /\ Unwrap(out) # Placeholder

\* an input of some 120 spaces between a tab and a no-break space has given
\* the placeholder
C22_Witness ==
  /\ Len(input) > 120
  /\ AllIn(input, WhiteSpace)
  /\ "\t" \in {input[i] : i \in 1..Len(input)}
  /\ IsSome(out)
  /\ Join(Unwrap(out)) = "recording"

\* C23: sanitize_recording_id is idempotent: applied to its own result it
\* returns that result.
C23_Idempotent ==
  IsSome(out_again) => out_again = out

\* the second call has returned for an input of more than 120 characters
\* whose 120th character after the trim is a space: the first result ends
\* with the '_' put for it
C23_Witness ==
  /\ IsSome(out_again)
  /\ Len(input) = 122
  /\ input[1] = "b"
  /\ input[121] = " "
  /\ input[122] = "b"
  /\ Unwrap(out)[120] = "_"

(***************************************************************************)
(* SpecCwd: the working directory of create_session (pty.rs:352-365,       *)
(* 454-456, 590-595), for the cwd arguments, values of $HOME and sets of   *)
(* existing directories below.  A path is the sequence of its characters;  *)
(* a relative path is looked up from the directory the program runs in.    *)
(***************************************************************************)
\* the paths that may be directories: two absolute ones and one relative to
\* the directory the program runs in
DirPaths == {<<"/", "w">>, <<"/", "h">>, <<"s", "r", "c">>}

\* the cwd arguments: none, empty, blank, an absolute path, the same between
\* spaces, a path that is never a directory, a relative path
CwdArgs ==
  {None, Some(<<>>), Some(<<" ">>), Some(<<"/", "w">>),
   Some(<<" ", "/", "w", " ">>), Some(<<"/", "f">>), Some(<<"s", "r", "c">>)}

\* std::env::var("HOME"): unset, or a path
HomeValues == {None, Some(<<"/", "h">>)}

\* Path::is_absolute
IsAbsolute(path) == path # <<>> /\ Head(path) = "/"

\* Path::new(s).is_dir()
IsDir(path) == path \in dirs

\* Option::filter
Filter(o, P(_)) == IF IsSome(o) /\ P(Unwrap(o)) THEN o ELSE None

\* pty.rs:352-365, had it also required an absolute path
ResolveCwd_absolute ==
  LET NotEmpty(path) == path # <<>>
      trimmed == IF IsSome(cwd_arg) THEN Some(Trim(Unwrap(cwd_arg))) ELSE None
      supplied == Filter(Filter(Filter(trimmed, NotEmpty), IsAbsolute), IsDir)
  IN  IF IsSome(supplied) THEN supplied ELSE Filter(HOME, IsDir)

\* pty.rs:352-365
ResolveCwd ==
  LET NotEmpty(path) == path # <<>>
      trimmed == IF IsSome(cwd_arg) THEN Some(Trim(Unwrap(cwd_arg))) ELSE None
      supplied == Filter(Filter(trimmed, NotEmpty), IsDir)
  IN  IF IsSome(supplied) THEN supplied ELSE Filter(HOME, IsDir)

InitCwd ==
  /\ InitRegistry
  /\ DecoderIdle
  /\ ThreadsIdle
  /\ SanitizeIdle
  /\ LoadIdle
  /\ ServicesIdle
  /\ cwd_arg \in CwdArgs
  /\ HOME \in HomeValues
  /\ dirs \in SUBSET DirPaths
  /\ cwd_local = None
  /\ cmd_cwd = None
  /\ info_cwd = None

\* pty.rs:352-365: let cwd = ...
CwdResolve ==
  /\ cwd_local = None
  /\ cwd_local' = Some(ResolveCwd)
  /\ UNCHANGED <<cwd_arg, HOME, dirs, cmd_cwd, info_cwd, sanVars,
                 loadVars, svcVars>>

\* pty.rs:454-456: cmd.cwd(cwd) if there is one
CwdCommand ==
  /\ IsSome(cwd_local)
  /\ cmd_cwd = None
  /\ cmd_cwd' = Some(Unwrap(cwd_local))
  /\ UNCHANGED <<cwd_arg, HOME, dirs, cwd_local, info_cwd, sanVars,
                 loadVars, svcVars>>

\* pty.rs:590-595: the SessionInfo returned
CwdReturn ==
  /\ IsSome(cmd_cwd)
  /\ info_cwd = None
  /\ info_cwd' = Some(Unwrap(cwd_local))
  /\ UNCHANGED <<cwd_arg, HOME, dirs, cwd_local, cmd_cwd, sanVars,
                 loadVars, svcVars>>

CwdNext == CwdResolve \/ CwdCommand \/ CwdReturn

SpecCwd == InitCwd /\ [][CwdNext /\ UNCHANGED <<regVars, decVars, lockVars>>]_vars

(***************************************************************************)
(* Properties of the working directory (SpecCwd)                           *)
(***************************************************************************)
\* C24: the command is given the supplied directory only if that is an
\* absolute path to an existing directory; otherwise the home directory if
\* it exists as a directory; otherwise none; and the cwd of the response is
\* the one the command was given.
C24_CwdAbsoluteOrHome ==
  IsSome(info_cwd)
    => LET supplied == IF IsSome(cwd_arg) THEN Trim(Unwrap(cwd_arg)) ELSE <<>>
           chosen == IF IsAbsolute(supplied) /\ supplied \in dirs
                     THEN Some(supplied)
                     ELSE IF IsSome(HOME) /\ Unwrap(HOME) \in dirs
                     THEN HOME
                     ELSE None
       IN  /\ Unwrap(cmd_cwd) = chosen
           /\ Unwrap(info_cwd) = chosen

(***************************************************************************)
(* SpecLoad: load_recording (recording.rs:67-100) on a file of up to       *)
(* MaxLines lines.  A line is a sequence of pieces of text: white space,   *)
(* the JSON of a meta line or of an input line, or text that is not JSON.  *)
(***************************************************************************)
\* longest file, in lines
MaxLines == 5

\* serde_json::from_str::<RecordingLineV1>: the texts that parse, with
\* their values (recording.rs:7-29); the first input has the later time
RecordingLines ==
  [text \in {"{meta:1}", "{meta:2}", "{input:5,a}", "{input:0,b}"} |->
     CASE text = "{meta:1}" -> [type |-> "meta", v |-> [created_at |-> 1]]
       [] text = "{meta:2}" -> [type |-> "meta", v |-> [created_at |-> 2]]
       [] text = "{input:5,a}" -> [type |-> "input", v |-> [t |-> 5, data |-> "a"]]
       [] text = "{input:0,b}" -> [type |-> "input", v |-> [t |-> 0, data |-> "b"]]]

\* recording.rs:81-82
from_str(text) ==
  IF text \in DOMAIN RecordingLines THEN Ok(RecordingLines[text])
  ELSE Err("parse failed")

\* the lines of the files: empty, blank, a meta line, another between white
\* space, an input line, another before white space, a line that is not
\* JSON, two objects on one line
FileLines ==
  {<<>>, <<" ", "\t">>, <<"{meta:1}">>, <<" ", "{meta:2}", " ">>,
   <<"{input:5,a}">>, <<"{input:0,b}", " ">>, <<"{">>,
   <<"{meta:1}", "{input:5,a}">>}

\* the files of exactly n lines
RECURSIVE FilesOf(_)
FilesOf(n) ==
  IF n = 0 THEN {<<>>}
  ELSE {Append(f, l) : f \in FilesOf(n - 1), l \in FileLines}

\* the files of at most k lines
LoadFiles(k) == UNION {FilesOf(n) : n \in 0..k}

\* the loop of load_recording, had it kept the last meta line
RECURSIVE LoadLines_last(_, _, _)
LoadLines_last(ls, meta, events) ==
  IF ls = <<>> THEN Ok([meta |-> meta, events |-> events])
  ELSE LET trimmed == Trim(Head(ls))
           parsed == from_str(Join(trimmed))
       IN  IF trimmed = <<>> THEN LoadLines_last(Tail(ls), meta, events)
           ELSE IF ~parsed.ok THEN parsed
           ELSE IF parsed.val.type = "meta"
           THEN LoadLines_last(Tail(ls), Some(parsed.val.v), events)
           ELSE LoadLines_last(Tail(ls), meta, Append(events, parsed.val.v))

\* recording.rs:76-93: the loop over the lines, from the values of meta and
\* events before it
RECURSIVE LoadLines(_, _, _)
LoadLines(ls, meta, events) ==
  IF ls = <<>> THEN Ok([meta |-> meta, events |-> events])
  ELSE LET trimmed == Trim(Head(ls))
           parsed == from_str(Join(trimmed))
       IN  IF trimmed = <<>> THEN LoadLines(Tail(ls), meta, events)
           ELSE IF ~parsed.ok THEN parsed
           ELSE IF parsed.val.type = "meta"
           THEN LoadLines(Tail(ls), IF IsSome(meta) THEN meta
                                    ELSE Some(parsed.val.v), events)
           ELSE LoadLines(Tail(ls), meta, Append(events, parsed.val.v))

InitLoad ==
  /\ InitRegistry
  /\ DecoderIdle
  /\ ThreadsIdle
  /\ SanitizeIdle
  /\ CwdIdle
  /\ ServicesIdle
  /\ lines \in LoadFiles(MaxLines)
  /\ loaded = None

\* recording.rs:67-100; opened: whether File::open succeeds
load_recording(opened) ==
  /\ loaded = None
  /\ loaded' = Some(IF opened THEN LoadLines(lines, None, <<>>)
                    ELSE Err("open failed"))
  /\ UNCHANGED <<lines, sanVars, cwdVars, svcVars>>

LoadNext == \E opened \in BOOLEAN : load_recording(opened)

SpecLoad == InitLoad /\ [][LoadNext /\ UNCHANGED <<regVars, decVars, lockVars>>]_vars

(***************************************************************************)
(* Properties of load_recording (SpecLoad)                                 *)
(***************************************************************************)
\* the line is empty or white space
Blank(l) == \A i \in 1..Len(l) : l[i] \in WhiteSpace

\* the line holds, between white space, the text of one meta or input line
LineOfType(l, type) ==
  \E i \in 1..Len(l) :
    /\ \A j \in 1..Len(l) : j # i => l[j] \in WhiteSpace
    /\ l[i] \in DOMAIN RecordingLines
    /\ RecordingLines[l[i]].type = type

\* the value of such a line
ValueOf(l) ==
  RecordingLines[CHOOSE text \in DOMAIN RecordingLines :
                   \E i \in 1..Len(l) : l[i] = text].v

IsMetaLine(l) == LineOfType(l, "meta")
IsInputLine(l) == LineOfType(l, "input")

\* C25: of a file whose lines are blank, meta lines or input lines,
\* load_recording skips the blank lines, returns as meta the first meta
\* line and none of the later ones, and returns the events of all the input
\* lines in the order of the lines.
C25_LoadFirstMetaAndEventsInOrder ==
  (/\ IsSome(loaded)
   /\ Unwrap(loaded) # Err("open failed")
   /\ \A i \in 1..Len(lines) :
        Blank(lines[i]) \/ IsMetaLine(lines[i]) \/ IsInputLine(lines[i]))
    => LET metas == SelectSeq(lines, IsMetaLine)
           inputs == SelectSeq(lines, IsInputLine)
           result == Unwrap(loaded)
       IN  /\ result.ok
           /\ result.val.meta = IF metas = <<>> THEN None
                                ELSE Some(ValueOf(metas[1]))
           /\ result.val.events = [i \in 1..Len(inputs) |-> ValueOf(inputs[i])]

\* a file of a blank line, a meta line, an input line at 5 ms, a second
\* meta line and an input line at 0 ms has been loaded
C25_Witness ==
  /\ Len(lines) = 5
  /\ Blank(lines[1])
  /\ IsMetaLine(lines[2])
  /\ IsInputLine(lines[3])
  /\ IsMetaLine(lines[4])
  /\ lines[4] # lines[2]
  /\ IsInputLine(lines[5])
  /\ lines[5] # lines[3]
  /\ IsSome(loaded)
  /\ Unwrap(loaded).ok
  /\ Len(Unwrap(loaded).val.events) = 2
  /\ Unwrap(loaded).val.events[1].t = 5

(***************************************************************************)
(* SpecLock: the threads of the program at the registry lock               *)
(* (state.inner.sessions.lock()).  MaxCallers threads call                 *)
(* write_to_session, close_session and list_sessions, MaxCalls calls in    *)
(* all; each session has its pump thread, its child, and a PTY that holds  *)
(* PtyCapacity bytes the child has not read.  A step is what a thread does *)
(* between two points where it may have to wait: for the lock, for room in *)
(* the PTY, for the end of the child.  Every session is recording and      *)
(* every write is a user write.                                            *)
(***************************************************************************)
\* calls started in all
MaxCalls == 3
\* bytes a PTY holds before a write to it blocks
PtyCapacity == 2
\* bytes of the data of a write
WriteLen == 2
\* the clock stops here
MaxClock == 1

CallerName(c) == "caller" \o ToString(c)
PumpName(id) == "pump" \o id

\* the data of the n-th call: WriteLen bytes that name the call
DataOf(n) == [i \in 1..WriteLen |-> [n |-> n, i |-> i]]

\* create_session (pty.rs:512-588) for a session of SpecLock: inserted under
\* the lock, its pump started, its recording on
SessionCreate(id) ==
  /\ childState[id] = "none"
  /\ lock = None
  /\ registry' = registry \cup {id}
  /\ childState' = [childState EXCEPT ![id] = "running"]
  /\ pumpAt' = [pumpAt EXCEPT ![id] = "read"]
  /\ UNCHANGED <<lock, callPc, call, ptyIn, unread, kills, waits, obtained,
                 calls, lockOrder, clock, recorded, waiterAt>>

\* a thread calls a command and reaches sessions.lock() (pty.rs:318-322,
\* 683-687, 738-742)
CallBegin(c, op, id) ==
  /\ callPc[c] = "idle"
  /\ calls < MaxCalls
  /\ calls' = calls + 1
  /\ call' = [call EXCEPT ![c] = [op |-> op, id |-> id, n |-> calls + 1,
                                  left |-> IF op = "write_to_session"
                                           THEN DataOf(calls + 1) ELSE <<>>,
                                  result |-> None]]
  /\ callPc' = [callPc EXCEPT ![c] = "lock"]
  /\ UNCHANGED <<lock, registry, pumpAt, ptyIn, unread, childState, kills,
                 waits, obtained, lockOrder, clock, recorded, waiterAt>>

\* the thread gets the lock
LockAcquire(c) ==
  /\ callPc[c] = "lock"
  /\ lock = None
  /\ lock' = Some(CallerName(c))
  /\ callPc' = [callPc EXCEPT ![c] = "locked"]
  /\ lockOrder' = IF call[c].op = "write_to_session"
                  THEN Append(lockOrder, call[c].n) ELSE lockOrder
  /\ UNCHANGED <<registry, call, pumpAt, ptyIn, unread, childState, kills,
                 waits, obtained, calls, clock, recorded, waiterAt>>

\* the command returns: the guard of the lock is dropped with it
Return(c, result) ==
  /\ lock' = IF lock = Some(CallerName(c)) THEN None ELSE lock
  /\ callPc' = [callPc EXCEPT ![c] = "idle"]
  /\ call' = [call EXCEPT ![c].result = Some(result)]

\* pty.rs:688: no session
WriteUnknown(c) ==
  /\ callPc[c] = "locked"
  /\ call[c].op = "write_to_session"
  /\ call[c].id \notin registry
  /\ Return(c, Err("unknown session"))
  /\ UNCHANGED <<registry, pumpAt, ptyIn, unread, childState, kills, waits,
                 obtained, calls, lockOrder, clock, recorded, waiterAt>>

\* WriteAllStep, had the guard been dropped before the write
WriteAllStep_unlocked(c) ==
  /\ callPc[c] = "locked"
  /\ call[c].op = "write_to_session"
  /\ call[c].id \in registry
  /\ call[c].left # <<>>
  /\ childState[call[c].id] = "running"
  /\ unread[call[c].id] < PtyCapacity
  /\ ptyIn' = [ptyIn EXCEPT ![call[c].id] = Append(@, Head(call[c].left))]
  /\ unread' = [unread EXCEPT ![call[c].id] = @ + 1]
  /\ call' = [call EXCEPT ![c].left = Tail(@)]
  /\ lock' = None
  /\ UNCHANGED <<registry, callPc, pumpAt, childState, kills, waits,
                 obtained, calls, lockOrder, clock, recorded, waiterAt>>

\* pty.rs:690-692: write_all writes the next byte as soon as the PTY has
\* room for it; until then the thread is blocked in the write, holding the
\* lock
WriteAllStep(c) ==
  /\ callPc[c] = "locked"
  /\ call[c].op = "write_to_session"
  /\ call[c].id \in registry
  /\ call[c].left # <<>>
  /\ childState[call[c].id] = "running"
  /\ unread[call[c].id] < PtyCapacity
  /\ ptyIn' = [ptyIn EXCEPT ![call[c].id] = Append(@, Head(call[c].left))]
  /\ unread' = [unread EXCEPT ![call[c].id] = @ + 1]
  /\ call' = [call EXCEPT ![c].left = Tail(@)]
  /\ UNCHANGED <<lock, registry, callPc, pumpAt, childState, kills, waits,
                 obtained, calls, lockOrder, clock, recorded, waiterAt>>

\* pty.rs:690-692: the write fails, the child having gone
WriteFails(c) ==
  /\ callPc[c] = "locked"
  /\ call[c].op = "write_to_session"
  /\ call[c].id \in registry
  /\ call[c].left # <<>>
  /\ childState[call[c].id] # "running"
  /\ Return(c, Err("write failed"))
  /\ UNCHANGED <<registry, pumpAt, ptyIn, unread, childState, kills, waits,
                 obtained, calls, lockOrder, clock, recorded, waiterAt>>

\* pty.rs:693-708: all bytes written; the input is recorded with the time
\* since the start of the recording, and the call returns
WriteReturn(c) ==
  /\ callPc[c] = "locked"
  /\ call[c].op = "write_to_session"
  /\ call[c].id \in registry
  /\ call[c].left = <<>>
  /\ recorded' = [recorded EXCEPT ![call[c].id] =
                    Append(@, [n |-> call[c].n, t |-> clock])]
  /\ Return(c, Ok("unit"))
  /\ UNCHANGED <<registry, pumpAt, ptyIn, unread, childState, kills, waits,
                 obtained, calls, lockOrder, clock, waiterAt>>

\* pty.rs:323-331
ListReturn(c) ==
  /\ callPc[c] = "locked"
  /\ call[c].op = "list_sessions"
  /\ Return(c, Ok(registry))
  /\ UNCHANGED <<registry, pumpAt, ptyIn, unread, childState, kills, waits,
                 obtained, calls, lockOrder, clock, recorded, waiterAt>>

\* CloseTake, had it looked the session up and left it in the registry
CloseTake_get(c) ==
  /\ callPc[c] = "locked"
  /\ call[c].op = "close_session"
  /\ lock' = None
  /\ IF call[c].id \in registry
     THEN /\ obtained' = [obtained EXCEPT ![call[c].id] = @ \cup {CallerName(c)}]
          /\ callPc' = [callPc EXCEPT ![c] = "kill"]
          /\ UNCHANGED call
     ELSE /\ callPc' = [callPc EXCEPT ![c] = "idle"]
          /\ call' = [call EXCEPT ![c].result = Some(Ok("unit"))]
          /\ UNCHANGED obtained
  /\ UNCHANGED <<registry, pumpAt, ptyIn, unread, childState, kills, waits,
                 calls, lockOrder, clock, recorded, waiterAt>>

\* pty.rs:737-748: sessions.remove(&id) and the end of the block that holds
\* the guard; without a session the call returns
CloseTake(c) ==
  /\ callPc[c] = "locked"
  /\ call[c].op = "close_session"
  /\ registry' = registry \ {call[c].id}
  /\ lock' = None
  /\ IF call[c].id \in registry
     THEN /\ obtained' = [obtained EXCEPT ![call[c].id] = @ \cup {CallerName(c)}]
          /\ callPc' = [callPc EXCEPT ![c] = "kill"]
          /\ UNCHANGED call
     ELSE /\ callPc' = [callPc EXCEPT ![c] = "idle"]
          /\ call' = [call EXCEPT ![c].result = Some(Ok("unit"))]
          /\ UNCHANGED obtained
  /\ UNCHANGED <<pumpAt, ptyIn, unread, childState, kills, waits, calls,
                 lockOrder, clock, recorded, waiterAt>>

\* pty.rs:750-756: child.kill(), the thread that waits is started, Ok
CloseKillChild(c) ==
  /\ callPc[c] = "kill"
  /\ kills' = [kills EXCEPT ![call[c].id] = @ + 1]
  /\ childState' = [childState EXCEPT ![call[c].id] =
                      IF @ = "running" THEN "killed" ELSE @]
  /\ waiterAt' = [waiterAt EXCEPT ![call[c].id] = "wait"]
  /\ Return(c, Ok("unit"))
  /\ UNCHANGED <<registry, pumpAt, ptyIn, unread, waits, obtained, calls,
                 lockOrder, clock, recorded>>

\* pty.rs:753-755: child.wait() in that thread
WaiterWaitChild(id) ==
  /\ waiterAt[id] = "wait"
  /\ childState[id] # "running"
  /\ waiterAt' = [waiterAt EXCEPT ![id] = "done"]
  /\ waits' = [waits EXCEPT ![id] = @ + 1]
  /\ UNCHANGED <<lock, registry, callPc, call, pumpAt, ptyIn, unread,
                 childState, kills, obtained, calls, lockOrder, clock,
                 recorded>>

\* pty.rs:541-557: the read returns Ok(0) or Err once the child has gone
PumpEndOfStream(id) ==
  /\ pumpAt[id] = "read"
  /\ childState[id] # "running"
  /\ pumpAt' = [pumpAt EXCEPT ![id] = "emit"]
  /\ UNCHANGED <<lock, registry, callPc, call, ptyIn, unread, childState,
                 kills, waits, obtained, calls, lockOrder, clock, recorded,
                 waiterAt>>

\* pty.rs:559-570: what is left of the carry is emitted
PumpEmitCarry(id) ==
  /\ pumpAt[id] = "emit"
  /\ pumpAt' = [pumpAt EXCEPT ![id] = "lock"]
  /\ UNCHANGED <<lock, registry, callPc, call, ptyIn, unread, childState,
                 kills, waits, obtained, calls, lockOrder, clock, recorded,
                 waiterAt>>

\* pty.rs:573: the pump gets the lock
PumpLock(id) ==
  /\ pumpAt[id] = "lock"
  /\ lock = None
  /\ lock' = Some(PumpName(id))
  /\ pumpAt' = [pumpAt EXCEPT ![id] = "remove"]
  /\ UNCHANGED <<registry, callPc, call, ptyIn, unread, childState, kills,
                 waits, obtained, calls, lockOrder, clock, recorded, waiterAt>>

\* PumpTake, had the guard lived until the child was waited on
PumpTake_hold(id) ==
  /\ pumpAt[id] = "remove"
  /\ registry' = registry \ {id}
  /\ IF id \in registry
     THEN /\ obtained' = [obtained EXCEPT ![id] = @ \cup {PumpName(id)}]
          /\ pumpAt' = [pumpAt EXCEPT ![id] = "wait"]
          /\ UNCHANGED lock
     ELSE /\ pumpAt' = [pumpAt EXCEPT ![id] = "emit_exit"]
          /\ lock' = None
          /\ UNCHANGED obtained
  /\ UNCHANGED <<callPc, call, ptyIn, unread, childState, kills, waits,
                 calls, lockOrder, clock, recorded, waiterAt>>

\* pty.rs:573-576: sessions.remove(&id_for_thread); the guard is dropped at
\* the end of the match arm
PumpTake(id) ==
  /\ pumpAt[id] = "remove"
  /\ registry' = registry \ {id}
  /\ lock' = None
  /\ IF id \in registry
     THEN /\ obtained' = [obtained EXCEPT ![id] = @ \cup {PumpName(id)}]
          /\ pumpAt' = [pumpAt EXCEPT ![id] = "wait"]
     ELSE /\ pumpAt' = [pumpAt EXCEPT ![id] = "emit_exit"]
          /\ UNCHANGED obtained
  /\ UNCHANGED <<callPc, call, ptyIn, unread, childState, kills, waits,
                 calls, lockOrder, clock, recorded, waiterAt>>

\* pty.rs:578-579: s.child.wait() on the session the pump removed
PumpWaitChild(id) ==
  /\ pumpAt[id] = "wait"
  /\ childState[id] # "running"
  /\ waits' = [waits EXCEPT ![id] = @ + 1]
  /\ pumpAt' = [pumpAt EXCEPT ![id] = "emit_exit"]
  /\ lock' = IF lock = Some(PumpName(id)) THEN None ELSE lock
  /\ UNCHANGED <<registry, callPc, call, ptyIn, unread, childState, kills,
                 obtained, calls, lockOrder, clock, recorded, waiterAt>>

\* pty.rs:581-587: pty-exit is emitted and the thread ends
PumpEmitExit(id) ==
  /\ pumpAt[id] = "emit_exit"
  /\ pumpAt' = [pumpAt EXCEPT ![id] = "done"]
  /\ UNCHANGED <<lock, registry, callPc, call, ptyIn, unread, childState,
                 kills, waits, obtained, calls, lockOrder, clock, recorded,
                 waiterAt>>

\* the child reads a byte of its input
ChildReads(id) ==
  /\ childState[id] = "running"
  /\ unread[id] > 0
  /\ unread' = [unread EXCEPT ![id] = @ - 1]
  /\ UNCHANGED <<lock, registry, callPc, call, pumpAt, ptyIn, childState,
                 kills, waits, obtained, calls, lockOrder, clock, recorded,
                 waiterAt>>

\* the child ends on its own
ChildExits(id) ==
  /\ childState[id] = "running"
  /\ childState' = [childState EXCEPT ![id] = "exited"]
  /\ UNCHANGED <<lock, registry, callPc, call, pumpAt, ptyIn, unread, kills,
                 waits, obtained, calls, lockOrder, clock, recorded, waiterAt>>

\* time passes
ClockTick ==
  /\ clock < MaxClock
  /\ clock' = clock + 1
  /\ UNCHANGED <<lock, registry, callPc, call, pumpAt, ptyIn, unread,
                 childState, kills, waits, obtained, calls, lockOrder,
                 recorded, waiterAt>>

\* the steps of the callers
CallerNext(c) ==
  \/ \E op \in {"write_to_session", "close_session", "list_sessions"},
        id \in LockIds : CallBegin(c, op, id)
  \/ LockAcquire(c)
  \/ WriteUnknown(c)
  \/ WriteAllStep(c)
  \/ WriteFails(c)
  \/ WriteReturn(c)
  \/ ListReturn(c)
  \/ CloseTake(c)
  \/ CloseKillChild(c)

\* the steps of the pump of a session and of the thread that waits on its
\* child
WorkerNext(id) ==
  \/ PumpEndOfStream(id)
  \/ PumpEmitCarry(id)
  \/ PumpLock(id)
  \/ PumpTake(id)
  \/ PumpWaitChild(id)
  \/ PumpEmitExit(id)
  \/ WaiterWaitChild(id)

LockNext ==
  \/ \E id \in LockIds : SessionCreate(id)
  \/ \E c \in Callers : CallerNext(c)
  \/ \E id \in LockIds : WorkerNext(id)
  \/ \E id \in LockIds : ChildReads(id)
  \/ \E id \in LockIds : ChildExits(id)
  \/ ClockTick

SpecLock ==
  Init /\ [][LockNext /\ UNCHANGED <<regVars, decVars, funVars>>]_vars

(***************************************************************************)
(* Properties of the threads at the registry lock (SpecLock)               *)
(***************************************************************************)
CallerNames == {CallerName(c) : c \in Callers}

\* the threads at work on the end of a session have all finished
SessionSettled(id) ==
  /\ pumpAt[id] = "done"
  /\ waiterAt[id] # "wait"
  /\ \A c \in Callers : ~(callPc[c] = "kill" /\ call[c].id = id)

\* C26: however close_session(id) and the end of the pump of that session
\* interleave, at most one of them gets the session out of the registry; the
\* child is killed at most once, and only by a close_session that got the
\* session; it is waited on at most once, by the pump only if the pump got
\* the session and by the thread of close_session only if close_session got
\* it; once all of them have finished it has been waited on exactly once
C26_ExactlyOneObtainsTheSession ==
  \A id \in LockIds :
    /\ Cardinality(obtained[id]) <= 1
    /\ kills[id] <= 1
    /\ waits[id] <= 1
    /\ (kills[id] > 0 \/ waiterAt[id] # "none") => obtained[id] \subseteq CallerNames
    /\ (\E c \in Callers : callPc[c] = "kill" /\ call[c].id = id)
         => obtained[id] \subseteq CallerNames /\ obtained[id] # {}
    /\ pumpAt[id] = "wait" => obtained[id] = {PumpName(id)}
    /\ obtained[id] = {PumpName(id)} => kills[id] = 0 /\ waiterAt[id] = "none"
    /\ (obtained[id] \cap CallerNames # {} /\ pumpAt[id] \in {"emit_exit", "done"})
         => waits[id] = (IF waiterAt[id] = "done" THEN 1 ELSE 0)
    /\ SessionSettled(id) => waits[id] = 1

\* close_session took the session while its pump was on the way to the lock;
\* the pump found no session, and the child was killed once and waited on once
C26_Witness ==
  \E id \in LockIds :
    /\ obtained[id] = {CallerName(1)}
    /\ pumpAt[id] = "done"
    /\ kills[id] = 1
    /\ waits[id] = 1
    /\ childState[id] = "exited"

\* the thread is inside write_all on a PTY that takes no more bytes, the
\* child not reading: it stays there, with the lock, until the child reads
BlockedInWrite(c) ==
  /\ callPc[c] = "locked"
  /\ lock = Some(CallerName(c))
  /\ call[c].op = "write_to_session"
  /\ call[c].id \in registry
  /\ call[c].left # <<>>
  /\ childState[call[c].id] = "running"
  /\ unread[call[c].id] = PtyCapacity

\* C27: no thread is blocked in I/O while it holds the registry lock; in
\* particular no close_session waits for the lock behind a write_to_session
\* that is blocked in its write
C27_NoBlockingUnderLock ==
  \A c \in Callers :
    BlockedInWrite(c) =>
      \A d \in Callers : ~(callPc[d] = "lock" /\ call[d].op = "close_session")

\* C28: the pump of a session holds the registry lock only at the removal of
\* its session: not in the read, not while it emits, not while it waits on
\* the child; close_session has given the lock up when it kills the child;
\* and every wait on a child was made by the pump that got the session or by
\* the thread close_session started, never by the thread of the caller
C28_LockHeldOnlyToRemove ==
  /\ \A id \in LockIds :
       /\ lock = Some(PumpName(id)) <=> pumpAt[id] = "remove"
       /\ waits[id] =
            (IF obtained[id] = {PumpName(id)} /\ pumpAt[id] \in {"emit_exit", "done"}
             THEN 1 ELSE 0)
            + (IF waiterAt[id] = "done" THEN 1 ELSE 0)
  /\ \A c \in Callers :
       /\ callPc[c] = "kill" => lock # Some(CallerName(c))
       /\ lock = Some(CallerName(c)) <=> callPc[c] = "locked"

\* the pump waits on the child of the session it removed while another
\* thread has the lock
C28_Witness ==
  \E id \in LockIds, c \in Callers :
    /\ pumpAt[id] = "wait"
    /\ obtained[id] = {PumpName(id)}
    /\ lock = Some(CallerName(c))

(***************************************************************************)
(* Properties of the registry under all commands (Spec)                    *)
(***************************************************************************)
\* the commands that look sessions up or insert one
KeepingOps ==
  {"list_sessions", "write_to_session", "resize_session",
   "start_session_recording", "stop_session_recording", "create_session"}

\* the step is the removal of close_session(id): the session is now in the
\* hands of that call
TakenByClose(id) ==
  /\ id \notin closing
  /\ id \in closing'
  /\ closeSession'[id] = Some(sessions[id])

\* the step is the removal made by the pump of session id: the session is
\* now in the hands of that pump
TakenByPump(id) ==
  /\ pumpPc[id] = "reap"
  /\ pumpPc'[id] = "wait"
  /\ pumpSession'[id] = Some(sessions[id])

\* C29: a step that takes a session out of the registry is the removal of
\* close_session on the id of that session or the removal made by the pump
\* of that session, and it takes no other session out; the steps of
\* list_sessions, write_to_session, resize_session, the recording commands
\* and create_session take none out
C29_RemovedOnlyByCloseOrOwnPump ==
  [][/\ \A id \in DOMAIN sessions :
          id \notin DOMAIN sessions' =>
            /\ TakenByClose(id) \/ TakenByPump(id)
            /\ DOMAIN sessions \ DOMAIN sessions' = {id}
     /\ (last'.op \in KeepingOps \/ createPc' # createPc)
          => DOMAIN sessions \subseteq DOMAIN sessions'
     /\ \A id \in Ids :
          (pumpPc'[id] # pumpPc[id]) => DOMAIN sessions \ DOMAIN sessions' \subseteq {id}
    ]_vars

\* the pump of one session has taken it out of the registry and the other
\* session is still there
C29_Witness ==
  \E id \in Ids, k \in Ids :
    /\ id # k
    /\ pumpPc[id] = "wait"
    /\ pumpSession[id] # None
    /\ id \notin DOMAIN sessions
    /\ k \in DOMAIN sessions

(***************************************************************************)
(* Properties of concurrent writes (SpecLock)                              *)
(***************************************************************************)
\* call n is a write that got the lock, and its place among them
GotLock(n) == \E k \in 1..Len(lockOrder) : lockOrder[k] = n
LockPlace(n) == CHOOSE k \in 1..Len(lockOrder) : lockOrder[k] = n

\* the bytes of the calls in s follow one another: a call's bytes in a row,
\* from its first, and the calls in the order they got the lock
InLockOrder(s) ==
  /\ s # <<>> => s[1].i = 1
  /\ \A k \in 1..(Len(s) - 1) :
       \/ s[k + 1].n = s[k].n /\ s[k + 1].i = s[k].i + 1
       \/ /\ s[k + 1].n # s[k].n
          /\ s[k + 1].i = 1
          /\ LockPlace(s[k].n) < LockPlace(s[k + 1].n)

\* C30: the bytes the PTY of a session got are the bytes of the
\* write_to_session calls on it, each call's bytes in a row and the calls in
\* the order they got the lock; the input lines recorded for the session are
\* in that same order, one for each call that wrote all its bytes, and their
\* times do not decrease
C30_WritesSerializedInLockOrder ==
  \A id \in LockIds :
    /\ \A k \in 1..Len(ptyIn[id]) : GotLock(ptyIn[id][k].n)
    /\ InLockOrder(ptyIn[id])
    /\ \A k \in 1..Len(recorded[id]) :
         /\ GotLock(recorded[id][k].n)
         /\ \A i \in 1..WriteLen :
              \E j \in 1..Len(ptyIn[id]) : ptyIn[id][j] = DataOf(recorded[id][k].n)[i]
    /\ \A k \in 1..(Len(recorded[id]) - 1) :
         /\ LockPlace(recorded[id][k].n) < LockPlace(recorded[id][k + 1].n)
         /\ recorded[id][k].t <= recorded[id][k + 1].t

\* two threads wrote to the session; the call started second got the lock
\* first, and time passed between the two lines recorded
C30_Witness ==
  \E id \in LockIds :
    /\ lockOrder = <<2, 1>>
    /\ ptyIn[id] = DataOf(2) \o DataOf(1)
    /\ Len(recorded[id]) = 2
    /\ recorded[id][1].n = 2
    /\ recorded[id][1].t < recorded[id][2].t

(***************************************************************************)
(* Properties of the exit event (SpecPump)                                 *)
(***************************************************************************)
\* the exit events emitted for session id
ExitEvents(id) == EventsNamed(emitted[id], "pty-exit")

\* C31: an exit event of a session carries an exit code only if the pump of
\* the session took it out of the registry itself; if close_session took the
\* session out, the exit event the pump emits carries none
C31_ExitCodeOnlyIfPumpRemoved ==
  \A id \in Ids :
    \A k \in 1..Len(ExitEvents(id)) :
      /\ RemovedByClose(id) => ExitEvents(id)[k].exit_code = None
      /\ ExitEvents(id)[k].exit_code # None =>
           /\ Reaped(id)
           /\ id \notin DOMAIN sessions
           /\ ~RemovedByClose(id)

\* close_session removed the session before its pump came to the registry;
\* the pump has emitted the exit event, without a code
C31_Witness ==
  \E id \in Ids :
    /\ RemovedByClose(id)
    /\ child[id] = "killed"
    /\ Len(ExitEvents(id)) = 1
    /\ ExitEvents(id)[1].exit_code = None

(***************************************************************************)
(* Properties of the decoder over any stream (SpecDecode)                  *)
(***************************************************************************)
\* C32: whatever the bytes and wherever the reads cut them, the strings
\* decode_utf8_stream has returned so far, followed by the lossy decoding of
\* the carry, are the lossy decoding of the bytes read so far; at the end of
\* the stream the output is the lossy decoding of the whole stream
C32_OutputIndependentOfChunks ==
  /\ ~dDone =>
       dOut \o (IF dCarry # <<>> THEN from_utf8_lossy(dCarry) ELSE <<>>)
         = from_utf8_lossy(SubSeq(dIn, 1, dPos))
  /\ dDone => dOut = from_utf8_lossy(dIn)

\* a stream with a sequence cut short by an 'A' and a sequence cut short by
\* the end of the stream, read one byte at a time
C32_Witness ==
  /\ dKind = "raw"
  /\ dIn = <<240, 159, 65, 226>>
  /\ dCuts = <<1, 1, 1, 1>>
  /\ dDone
  /\ dOut = <<REPLACEMENT, 65, REPLACEMENT>>

(***************************************************************************)
(* SpecFlush: one session with a recording, user writes without a line end *)
(* (a character, or FlushChunk characters), and time that passes in steps  *)
(* of half the flush interval, also when nobody writes.                    *)
(***************************************************************************)
\* input lines beyond which SpecFlush records no more
MaxFlushWrites == 5
\* the time at which the clock of SpecFlush stops
MaxIdle == 2250
\* characters of the long write of SpecFlush
FlushChunk == 5000

\* the data written in SpecFlush
FlushData == {<<[ch |-> "x", n |-> 1]>>, <<[ch |-> "x", n |-> FlushChunk]>>}

FlushNext ==
  \/ /\ next_id = 0
     /\ CreateSpawn(None, None, FALSE)
  \/ CreateInsert("0")
  \/ CreateStartPump("0")
  \/ \E io \in IoOutcomes :
       start_session_recording("0", <<"r", "1">>, "p", "s", None, "ok", io)
  \/ /\ Recorded < MaxFlushWrites
     /\ \E data \in FlushData, io \in IoOutcomes :
          write_to_session("0", data, Some("user"), TRUE, io)
  \/ /\ now < MaxIdle
     /\ Tick(750)

SpecFlush == Init /\ [][FlushNext /\ UNCHANGED <<decVars, funVars, lockVars>>]_vars

(***************************************************************************)
(* Properties of the flushes of a recording (SpecFlush)                    *)
(***************************************************************************)
\* the recordings of the sessions in the registry
ActiveRecordings ==
  {Unwrap(sessions[id].recording) :
     id \in {i \in DOMAIN sessions : IsSome(sessions[i].recording)}}

\* C33: an input line of an active recording is in the file at the latest
\* 1.5 s after it was recorded, whether or not another write follows: no
\* line older than that is still in the buffer of the writer
C33_FlushedWithinInterval ==
  \A rec \in ActiveRecordings :
    \A i \in InputPieces(rec.buf) :
      now - (rec.started_at + rec.buf[i].t) <= 1500


\* C34: after every call of record_user_input the count of bytes not yet
\* flushed is below 16 KiB: the call that brings it to 16 KiB or more
\* flushes and sets it to 0, whatever the sizes of the writes
C34_UnflushedBelowThreshold ==
  [][\A id \in DOMAIN sessions' :
       IsSome(sessions'[id].recording) =>
         LET after == Unwrap(sessions'[id].recording)
         IN  /\ after.unflushed_bytes < 16 * 1024
             /\ (/\ id \in DOMAIN sessions
                 /\ IsSome(sessions[id].recording)
                 /\ sessions'[id].recording # sessions[id].recording) =>
                  LET rec == Unwrap(sessions[id].recording)
                      json == InputJson(now - rec.started_at, last'.args.data)
                      counted == rec.unflushed_bytes + json.size + 1
                  IN  /\ last'.op = "write_to_session"
                      /\ after.unflushed_bytes \in {0, counted}
                      /\ counted >= 16 * 1024 =>
                           /\ after.unflushed_bytes = 0
                           /\ after.last_flush = now
                           /\ after.buf = <<>> \/ files' = files
    ]_vars

\* four writes of FlushChunk characters without a line end, made in the same
\* instant: the fourth brought the count past 16 KiB and flushed
C34_Witness ==
  \E rec \in ActiveRecordings :
    /\ now = 0
    /\ rec.buf = <<>>
    /\ rec.unflushed_bytes = 0
    /\ Cardinality(InputPieces(files[rec.id])) = 4
    /\ \A i \in InputPieces(files[rec.id]) :
         files[rec.id][i].data = <<[ch |-> "x", n |-> FlushChunk]>>


\* continuation bytes at the ends of the ranges the second byte of a
\* sequence may be restricted to
Continuations == {128, 143, 144, 159, 160, 191}
\* what may follow the beginning of a sequence: one to three continuation
\* bytes
Completions == UNION {[1..k -> Continuations] : k \in 1..3}

\* c is the beginning, and not the whole, of a well-formed sequence of more
\* than one byte
ProperPrefix(c) ==
  /\ c # <<>>
  /\ \E tail \in Completions :
       LET r == CheckSeq(c \o tail, 1)
       IN  r.k = "ok" /\ r.len = Len(c) + Len(tail)

\* C35: after every call of decode_utf8_stream the carry is empty or is at
\* most 3 bytes that begin a well-formed sequence of more than one byte; it
\* is the end of the bytes read, and the output is the decoding of the bytes
\* before it: no byte decoded to text or to U+FFFD is in the carry
C35_CarryIsProperPrefix ==
  /\ Len(dCarry) <= 3
  /\ dCarry = <<>> \/ ProperPrefix(dCarry)
  /\ dCarry = SubSeq(dIn, dPos - Len(dCarry) + 1, dPos)
  /\ ~dDone => dOut = from_utf8_lossy(SubSeq(dIn, 1, dPos - Len(dCarry)))

\* an 'A' and the first three bytes of a 4-byte sequence were read: the 'A'
\* is out and the three bytes are the carry
C35_Witness ==
  /\ dIn = <<65, 240, 159, 159>>
  /\ dPos = 4
  /\ dOut = <<65>>
  /\ dCarry = <<240, 159, 159>>

(***************************************************************************)
(* Properties of the child of a failed create_session (Spec)               *)
(***************************************************************************)
\* the handle of the child of id is in a registry entry, or in the hands of
\* a close_session, of the pump, or of the thread that waits on it
ChildOwned(id) ==
  \/ id \in DOMAIN sessions
  \/ id \in closing
  \/ IsSome(pumpSession[id])
  \/ waiter[id] # "none"

\* C36: a create_session that failed has left no child behind: the child it
\* spawned, if there is a process still running or not yet waited on, has
\* its handle owned by someone who will wait on it
C36_NoChildWithoutOwner ==
  \A id \in Ids :
    (createPc[id] = "failed" /\ child[id] \in {"running", "exited"})
      => ChildOwned(id)

(***************************************************************************)
(* SpecSave: save_persisted_state (persist.rs:89-114) step by step, one    *)
(* call at a time, with load_persisted_state (persist.rs:73-87) and the    *)
(* end of the process possible between any two steps.  A file is the text  *)
(* written to it so far: nothing, the JSON of a state, the JSON and the    *)
(* line end.                                                               *)
(***************************************************************************)
\* number of saves begun
MaxSaves == 3

\* the text of a file that holds the JSON of state v, with or without the
\* line end, and of a file just created
FileOf(v, written) == [json |-> v, written |-> written]

\* serde_json::from_str of the text of a file (persist.rs:81): an empty
\* text is no JSON; the line end after the value is white space
ParseState(text) ==
  IF text.written = "nothing" THEN Err("parse failed") ELSE Ok(text.json)

\* the call returns
SaveReturn(result) ==
  /\ savePc' = "idle"
  /\ saveResult' = Some(result)

\* persist.rs:90-96: the schema version is checked and the directory made
SaveBegin(schema_version, dir_ok) ==
  /\ savePc = "idle"
  /\ saves < MaxSaves
  /\ saves' = saves + 1
  /\ IF schema_version # 1
     THEN /\ SaveReturn(Err("unsupported schema version"))
          /\ UNCHANGED <<saveState, savePrev>>
     ELSE IF ~dir_ok
     THEN /\ SaveReturn(Err("create dir failed"))
          /\ UNCHANGED <<saveState, savePrev>>
     ELSE /\ savePc' = "create"
          /\ saveState' = Some(saves + 1)
          /\ savePrev' = state_file
          /\ saveResult' = None
  /\ UNCHANGED <<state_file, tmp_file, loadedState>>

\* persist.rs:101: File::create(&tmp) makes the temporary file or empties it
SaveCreateTemp(ok) ==
  /\ savePc = "create"
  /\ IF ok
     THEN /\ tmp_file' = Some(FileOf(Unwrap(saveState), "nothing"))
          /\ savePc' = "write_json"
          /\ UNCHANGED saveResult
     ELSE /\ SaveReturn(Err("write temp failed"))
          /\ UNCHANGED tmp_file
  /\ UNCHANGED <<state_file, saveState, savePrev, saves, loadedState>>

\* persist.rs:102-103: the JSON is written
SaveWriteJson(ok) ==
  /\ savePc = "write_json"
  /\ IF ok
     THEN /\ tmp_file' = Some(FileOf(Unwrap(saveState), "json"))
          /\ savePc' = "write_newline"
          /\ UNCHANGED saveResult
     ELSE /\ SaveReturn(Err("write temp failed"))
          /\ UNCHANGED tmp_file
  /\ UNCHANGED <<state_file, saveState, savePrev, saves, loadedState>>

\* persist.rs:104-107: the line end is written and the file closed
SaveWriteNewline(ok) ==
  /\ savePc = "write_newline"
  /\ IF ok
     THEN /\ tmp_file' = Some(FileOf(Unwrap(saveState), "json_nl"))
          /\ savePc' = "remove"
          /\ UNCHANGED saveResult
     ELSE /\ SaveReturn(Err("write temp failed"))
          /\ UNCHANGED tmp_file
  /\ UNCHANGED <<state_file, saveState, savePrev, saves, loadedState>>

\* SaveRemoveOld, had the state file been left for the rename to replace
SaveRemoveOld_keep(ok) ==
  /\ savePc = "remove"
  /\ savePc' = "rename"
  /\ UNCHANGED <<state_file, tmp_file, saveState, savePrev, saveResult, saves,
                 loadedState>>

\* persist.rs:109-111: a state file that exists is removed; a failure of the
\* removal is ignored
SaveRemoveOld(ok) ==
  /\ savePc = "remove"
  /\ state_file' = IF state_file # None /\ ok THEN None ELSE state_file
  /\ savePc' = "rename"
  /\ UNCHANGED <<tmp_file, saveState, savePrev, saveResult, saves, loadedState>>

\* persist.rs:112-113: the temporary file is renamed to the state file
SaveRename(ok) ==
  /\ savePc = "rename"
  /\ IF ok
     THEN /\ state_file' = tmp_file
          /\ tmp_file' = None
          /\ SaveReturn(Ok("unit"))
     ELSE /\ SaveReturn(Err("rename failed"))
          /\ UNCHANGED <<state_file, tmp_file>>
  /\ UNCHANGED <<saveState, savePrev, saves, loadedState>>

\* the process ends in the middle of a save and is started again: the files
\* are what they were
SaveCrash ==
  /\ savePc # "idle"
  /\ SaveReturn(Err("crashed"))
  /\ UNCHANGED <<state_file, tmp_file, saveState, savePrev, saves, loadedState>>

\* persist.rs:73-87: the state file is read and parsed
load_persisted_state ==
  /\ loadedState' =
       IF state_file = None THEN Ok(None)
       ELSE LET parsed == ParseState(Unwrap(state_file))
            IN  IF parsed.ok THEN Ok(Some(parsed.val)) ELSE parsed
  /\ UNCHANGED <<state_file, tmp_file, savePc, saveState, savePrev,
                 saveResult, saves>>

SaveNext ==
  \/ \E schema_version \in {1, 2}, dir_ok \in BOOLEAN :
       SaveBegin(schema_version, dir_ok)
  \/ \E ok \in BOOLEAN : SaveCreateTemp(ok)
  \/ \E ok \in BOOLEAN : SaveWriteJson(ok)
  \/ \E ok \in BOOLEAN : SaveWriteNewline(ok)
  \/ \E ok \in BOOLEAN : SaveRemoveOld(ok)
  \/ \E ok \in BOOLEAN : SaveRename(ok)
  \/ SaveCrash
  \/ load_persisted_state

SpecSave ==
  Init /\ [][SaveNext /\ UNCHANGED <<regVars, decVars, lockVars, sanVars,
                                     cwdVars, loadVars, zshVars, fsVars>>]_vars

(***************************************************************************)
(* Properties of the state file (SpecSave)                                 *)
(***************************************************************************)
\* C37: from the moment a save begins, whatever happens to it, the state
\* file that held a state before the save holds that state, whole, or the
\* new state, whole: it is never missing and never a part of a file
C37_StateFileOldOrNew ==
  savePrev # None =>
    \/ state_file = savePrev
    \/ state_file = Some(FileOf(Unwrap(saveState), "json_nl"))

(***************************************************************************)
(* SpecZsh: the startup of the zsh that create_session starts with -l on a *)
(* PTY (pty.rs:376, 480-492) and of the shells started from it.  zsh reads *)
(* .zshenv, .zprofile (login), .zshrc (interactive), .zlogin (login), each *)
(* from the directory ZDOTDIR names at that moment.  The wrappers are the  *)
(* commands write_zsh_startup_files (pty.rs:163-220) writes; the files of  *)
(* the user are sourced as a whole and leave ZDOTDIR alone.                *)
(***************************************************************************)
\* shells started one from the other, after the shell of the session
MaxSubshells == 1

\* the startup files in the order zsh reads them
StartupFiles == <<".zshenv", ".zprofile", ".zshrc", ".zlogin">>
StartupNames == {StartupFiles[i] : i \in 1..Len(StartupFiles)}
\* the order in which write_zsh_startup_files writes the wrappers
\* (pty.rs:196-217)
WriteOrder == <<".zshenv", ".zprofile", ".zlogin", ".zshrc">>

\* wrap_source, had every wrapper restored the directory
wrap_source_restore(orig_file, restore_to_temp) ==
  <<[cmd |-> "typeset_temp"], [cmd |-> "export_orig"],
    [cmd |-> "source_if_exists", file |-> orig_file],
    [cmd |-> "export_temp"], [cmd |-> "unset_temp"]>>

\* pty.rs:186-195: the text wrap_source returns, command by command
wrap_source(orig_file, restore_to_temp) ==
  <<[cmd |-> "typeset_temp"], [cmd |-> "export_orig"],
    [cmd |-> "source_if_exists", file |-> orig_file]>>
  \o (IF restore_to_temp THEN <<[cmd |-> "export_temp"]>> ELSE <<>>)
  \o <<[cmd |-> "unset_temp"]>>

\* pty.rs:196-217: the contents of the wrapper of a startup file
Wrapper(name) ==
  IF name = ".zshenv" THEN wrap_source(".zshenv", TRUE)
  ELSE IF name = ".zprofile" THEN wrap_source(".zprofile", TRUE)
  ELSE IF name = ".zlogin" THEN wrap_source(".zlogin", FALSE)
  ELSE wrap_source(".zshrc", FALSE) \o <<[cmd |-> "hooks"]>>

\* the startup file zsh turns to after file name, "ready" after the last
NextFile(name) ==
  IF name = ".zshenv" THEN ".zprofile"
  ELSE IF name = ".zprofile" THEN ".zshrc"
  ELSE IF name = ".zshrc" THEN ".zlogin"
  ELSE "ready"

\* the shell of the session is a login shell; the shells started from it
\* are not
LoginOnly(name) == name \in {".zprofile", ".zlogin"}

\* pty.rs:480-492: the wrappers are written, the first n of them when a
\* write fails; ZDOTDIR is set only if all were written; the shell starts
ZshStart(origFiles, n) ==
  /\ zshPc = "none"
  /\ zshOrigFiles' = origFiles
  /\ zshWritten' = [name \in {WriteOrder[i] : i \in 1..n} |-> Wrapper(name)]
  /\ zdotdir' = IF n = Len(WriteOrder) THEN "temp" ELSE "orig"
  /\ zshPc' = ".zshenv"
  /\ UNCHANGED <<zshFile, zshSaved, zshSourced, zshLevel>>

\* zsh turns to its next startup file: it passes over a file that is not for
\* this shell, starts on the wrapper when ZDOTDIR is the private directory
\* (which holds all four), or else sources the file of the user if it is
\* there
ZshRead ==
  /\ zshPc \in StartupNames
  /\ zshFile = None
  /\ IF zshLevel > 0 /\ LoginOnly(zshPc)
     THEN /\ zshPc' = NextFile(zshPc)
          /\ UNCHANGED <<zshFile, zshSourced>>
     ELSE IF zdotdir = "temp"
     THEN /\ zshFile' = Some(zshWritten[zshPc])
          /\ UNCHANGED <<zshPc, zshSourced>>
     ELSE /\ zshPc' = NextFile(zshPc)
          /\ zshSourced' = IF zshPc \in zshOrigFiles
                           THEN Append(zshSourced, [dir |-> "orig", file |-> zshPc])
                           ELSE zshSourced
          /\ UNCHANGED zshFile
  /\ UNCHANGED <<zshOrigFiles, zshWritten, zdotdir, zshSaved, zshLevel>>

\* the shell runs the next command of the wrapper it is in
ZshExec ==
  /\ zshFile # None
  /\ Unwrap(zshFile) # <<>>
  /\ LET c == Head(Unwrap(zshFile))
     IN  /\ zshSaved' = IF c.cmd = "typeset_temp" THEN Some(zdotdir)
                        ELSE IF c.cmd = "unset_temp" THEN None
                        ELSE zshSaved
         /\ zdotdir' = IF c.cmd = "export_orig" THEN "orig"
                       ELSE IF c.cmd = "export_temp" THEN Unwrap(zshSaved)
                       ELSE zdotdir
         /\ zshSourced' =
              IF c.cmd = "source_if_exists" /\ c.file \in zshOrigFiles
              THEN Append(zshSourced, [dir |-> "orig", file |-> c.file])
              ELSE IF c.cmd = "hooks"
              THEN Append(zshSourced, [dir |-> "temp", file |-> "hooks"])
              ELSE zshSourced
  /\ zshFile' = Some(Tail(Unwrap(zshFile)))
  /\ UNCHANGED <<zshOrigFiles, zshWritten, zshPc, zshLevel>>

\* the wrapper is at its end
ZshEndFile ==
  /\ zshFile = Some(<<>>)
  /\ zshFile' = None
  /\ zshPc' = NextFile(zshPc)
  /\ UNCHANGED <<zshOrigFiles, zshWritten, zdotdir, zshSaved, zshSourced,
                 zshLevel>>

\* a zsh is started from the shell: it has the environment of the shell
ZshSubshell ==
  /\ zshPc = "ready"
  /\ zshLevel < MaxSubshells
  /\ zshLevel' = zshLevel + 1
  /\ zshPc' = ".zshenv"
  /\ zshSourced' = <<>>
  /\ UNCHANGED <<zshOrigFiles, zshWritten, zdotdir, zshFile, zshSaved>>

ZshNext ==
  \/ \E origFiles \in SUBSET StartupNames, n \in 0..Len(WriteOrder) :
       ZshStart(origFiles, n)
  \/ ZshRead
  \/ ZshExec
  \/ ZshEndFile
  \/ ZshSubshell

SpecZsh ==
  Init /\ [][ZshNext /\ UNCHANGED <<regVars, decVars, lockVars, sanVars,
                                    cwdVars, loadVars, saveVars, fsVars>>]_vars

(***************************************************************************)
(* Properties of the zsh startup files (SpecZsh)                           *)
(***************************************************************************)
\* all four wrappers were written and ZDOTDIR was set for the shell
WrappersInUse == DOMAIN zshWritten = StartupNames

\* C38: with the wrappers in use, a shell that has completed its startup
\* has ZDOTDIR at the private directory, so that a shell started from it
\* reads the wrappers
C38_ZdotdirPrivateAfterStartup ==
  (WrappersInUse /\ zshPc = "ready") => zdotdir = "temp"


\* ------------------------------------------------------------------------
\* The file service (files.rs)
\* ------------------------------------------------------------------------

\* A path argument: absolute or not, and its components as written ("." is
\* dropped by Path's component iterator, ".." is kept).
MaxFsCalls == 2

AbsPath(comps) == [abs |-> TRUE, comps |-> comps]

RelPath(comps) == [abs |-> FALSE, comps |-> comps]

\* The roots the callers declare: the directory r, a relative path, a file.
FsRoots == {AbsPath(<<"r">>), RelPath(<<"r">>), AbsPath(<<"r", "f">>)}

FsPaths ==
  { AbsPath(<<"r">>), AbsPath(<<"r", "f">>), AbsPath(<<"r", "sub">>),
    AbsPath(<<"r", "sub", "f">>), AbsPath(<<"r", "sub", "..">>),
    AbsPath(<<"r", "..">>), AbsPath(<<"r", "link">>),
    AbsPath(<<"r", "link", "secret">>), AbsPath(<<"o", "secret">>),
    AbsPath(<<"r", "n">>), AbsPath(<<>>), RelPath(<<"f">>) }

FsNames == {"n", "f", "", "..", "a/b"}

FsContents == {"b", "nul", "big"}

\* The names in the order of str::cmp on their lower-case forms.
NameOrder == <<"f", "link", "n", "o", "r", "secret", "sub">>

NameRank(nm) == CHOOSE i \in 1..Len(NameOrder) : NameOrder[i] = nm

\* The directory a canonical path lies in; "/" is its own parent.
ParentOf(p) == IF p = <<>> THEN <<>> ELSE SubSeq(p, 1, Len(p) - 1)

\* Path::parent: the path without its leaf component as written.
LexicalParent(comps) ==
  IF comps = <<>> THEN None ELSE Some(SubSeq(comps, 1, Len(comps) - 1))

\* Path resolution of the operating system from the directory cur: ".." goes
\* to the parent, a symlink is replaced by its target.
RECURSIVE Walk(_, _, _)
Walk(t, cur, comps) ==
  IF cur \notin DOMAIN t THEN Err("canonicalize failed")
  ELSE IF comps = <<>> THEN Ok(cur)
  ELSE IF t[cur].kind # "dir" THEN Err("canonicalize failed")
  ELSE IF Head(comps) = ".." THEN Walk(t, ParentOf(cur), Tail(comps))
  ELSE LET next == Append(cur, Head(comps))
       IN  IF next \notin DOMAIN t THEN Err("canonicalize failed")
           ELSE IF t[next].kind = "link"
                THEN Walk(t, t[next].target, Tail(comps))
                ELSE Walk(t, next, Tail(comps))

canonicalize_existing(t, comps) == Walk(t, <<>>, comps)

\* fs::symlink_metadata: the entry a path names, its leaf component not
\* followed when it is a symlink.
symlink_metadata(t, comps) ==
  IF comps = <<>> THEN Ok(<<>>)
  ELSE LET dir  == Walk(t, <<>>, SubSeq(comps, 1, Len(comps) - 1))
           leaf == comps[Len(comps)]
       IN  IF ~dir.ok \/ t[dir.val].kind # "dir" THEN Err("metadata failed")
           ELSE IF leaf = ".." THEN Ok(ParentOf(dir.val))
           ELSE IF Append(dir.val, leaf) \in DOMAIN t
                THEN Ok(Append(dir.val, leaf))
                ELSE Err("metadata failed")

is_dir(t, comps) ==
  LET c == canonicalize_existing(t, comps) IN c.ok /\ t[c.val].kind = "dir"

is_file(t, comps) ==
  LET c == canonicalize_existing(t, comps) IN c.ok /\ t[c.val].kind = "file"

ensure_root_dir(t, root) ==
  IF ~root.abs THEN Err("root must be absolute")
  ELSE IF ~is_dir(t, root.comps) THEN Err("root is not a directory")
  ELSE canonicalize_existing(t, root.comps)

ensure_within_root(t, root, path) ==
  LET r == ensure_root_dir(t, root)
      canon == canonicalize_existing(t, path.comps)
  IN  IF ~r.ok THEN r
      ELSE IF ~path.abs THEN Err("path must be absolute")
      ELSE IF ~canon.ok THEN canon
      ELSE IF ~IsPrefix(r.val, canon.val) THEN Err("path is outside root")
      ELSE canon

ensure_parent_within_root(t, root, path) ==
  LET r == ensure_root_dir(t, root)
      parent == LexicalParent(path.comps)
      canon_parent == canonicalize_existing(t, parent[1])
  IN  IF ~r.ok THEN r
      ELSE IF ~path.abs THEN Err("path must be absolute")
      ELSE IF parent = None THEN Err("missing parent directory")
      ELSE IF ~canon_parent.ok THEN canon_parent
      ELSE IF ~IsPrefix(r.val, canon_parent.val)
           THEN Err("path is outside root")
      ELSE Ok([root |-> r.val, parent |-> canon_parent.val])

\* The entries at or below a canonical path.
Under(t, p) == {q \in DOMAIN t : IsPrefix(p, q)}

Restrict(t, keep) == [q \in keep |-> t[q]]

\* The tree after fs::rename of the entry src to the free path dst.
Moved(t, src, dst) ==
  LET rest(q) == SubSeq(q, Len(src) + 1, Len(q))
      tail(q) == SubSeq(q, Len(dst) + 1, Len(q))
      dom == (DOMAIN t \ Under(t, src)) \cup
             {dst \o rest(q) : q \in Under(t, src)}
  IN  [q \in dom |-> IF IsPrefix(dst, q) THEN t[src \o tail(q)] ELSE t[q]]

\* One command of the service has returned: what it was given, the entry its
\* path named before it ran, what it read, removed and changed.
FsDone(op, root, path, result, read, newTree) ==
  /\ fsCalls < MaxFsCalls
  /\ fsCalls' = fsCalls + 1
  /\ tree' = newTree
  /\ fsLast' = [op |-> op,
                root |-> ensure_root_dir(tree, root),
                entry |-> IF path.abs
                          THEN symlink_metadata(tree, path.comps)
                          ELSE Err("path must be absolute"),
                result |-> result,
                read |-> read,
                removed |-> DOMAIN tree \ DOMAIN newTree,
                changed |-> {q \in DOMAIN newTree :
                               q \notin DOMAIN tree \/ newTree[q] # tree[q]}]

\* files.rs:54-86: the entries of a directory, directories first, then by name.
Listed(t, dir) ==
  LET kids == {q \in DOMAIN t : Len(q) = Len(dir) + 1 /\ IsPrefix(dir, q)
                                 /\ canonicalize_existing(t, q).ok}
      item(q) == [name |-> q[Len(q)], is_dir |-> is_dir(t, q)]
      before(a, b) == IF a.is_dir # b.is_dir THEN a.is_dir
                      ELSE NameRank(a.name) < NameRank(b.name)
      items == {item(q) : q \in kids}
  IN  CHOOSE s \in [1..Cardinality(items) -> items] :
        /\ \A i, j \in DOMAIN s : i < j => before(s[i], s[j])

\* What a command returns, reads and leaves as the file system.
Outcome(result, read, newTree) ==
  [result |-> result, read |-> read, tree |-> newTree]

list_fs_entries(root, path) ==
  LET dir == ensure_within_root(tree, root, path)
      done == IF ~dir.ok THEN Outcome(dir, {}, tree)
              ELSE IF tree[dir.val].kind # "dir"
                   THEN Outcome(Err("not a directory"), {}, tree)
              ELSE Outcome(Ok(Listed(tree, dir.val)), {dir.val}, tree)
  IN  FsDone("list", root, path, done.result, done.read, done.tree)

read_text_file(root, path) ==
  LET file == ensure_within_root(tree, root, path)
      done == IF ~file.ok THEN Outcome(file, {}, tree)
              ELSE IF tree[file.val].kind # "file"
                   THEN Outcome(Err("not a file"), {}, tree)
              ELSE IF tree[file.val].text = "big"
                   THEN Outcome(Err("file too large"), {file.val}, tree)
              ELSE IF tree[file.val].text = "nul"
                   THEN Outcome(Err("binary files are not supported"),
                                {file.val}, tree)
              ELSE IF tree[file.val].text = "bad"
                   THEN Outcome(Err("file is not valid UTF-8"),
                                {file.val}, tree)
              ELSE Outcome(Ok(tree[file.val].text), {file.val}, tree)
  IN  FsDone("read", root, path, done.result, done.read, done.tree)

write_text_file(root, path, content) ==
  LET file == ensure_within_root(tree, root, path)
      done == IF ~file.ok THEN Outcome(file, {}, tree)
              ELSE IF tree[file.val].kind # "file"
                   THEN Outcome(Err("not a file"), {}, tree)
              ELSE Outcome(Ok("unit"), {},
                           [tree EXCEPT ![file.val].text = content])
  IN  FsDone("write", root, path, done.result, done.read, done.tree)

rename_fs_entry(root, path, new_name) ==
  LET checked == ensure_parent_within_root(tree, root, path)
      from == path.comps
      to == Append(LexicalParent(from)[1], new_name)
      entry == symlink_metadata(tree, from)
      fail(e) == Outcome(Err(e), {}, tree)
      done == IF ~checked.ok THEN Outcome(checked, {}, tree)
              ELSE IF from = checked.val.root THEN fail("cannot rename root")
              ELSE IF new_name = "" THEN fail("missing new name")
              ELSE IF new_name = ".." THEN fail("invalid name")
              ELSE IF new_name = "a/b"
                   THEN fail("name must not contain path separators")
              ELSE IF canonicalize_existing(tree, to).ok
                   THEN fail("target already exists")
              ELSE IF ~entry.ok THEN fail("metadata failed")
              \* rename(2) refuses a source whose final component is ".."
              ELSE IF from[Len(from)] = ".." THEN fail("rename failed")
              ELSE Outcome(Ok(to), {},
                           Moved(tree, entry.val,
                                 Append(checked.val.parent, new_name)))
  IN  FsDone("rename", root, path, done.result, done.read, done.tree)

\* files.rs:192-194: remove_dir_all empties the directory and then removes
\* it by the path it was given; rmdir(2) refuses a path that ends in "..",
\* so that call fails after the directory has been emptied.
delete_fs_entry(root, path) ==
  LET checked == ensure_parent_within_root(tree, root, path)
      target == path.comps
      meta == symlink_metadata(tree, target)
      fail(e) == Outcome(Err(e), {}, tree)
      removing(gone, result) ==
        Outcome(result, {}, Restrict(tree, DOMAIN tree \ gone))
      done == IF ~checked.ok THEN Outcome(checked, {}, tree)
              ELSE IF target = checked.val.root THEN fail("cannot delete root")
              ELSE IF ~meta.ok THEN fail("metadata failed")
              ELSE IF tree[meta.val].kind = "link"
                   THEN removing({meta.val}, Ok("unit"))
              ELSE IF tree[meta.val].kind = "dir"
                   THEN IF target[Len(target)] = ".."
                        THEN removing(Under(tree, meta.val) \ {meta.val},
                                      Err("delete failed"))
                        ELSE removing(Under(tree, meta.val), Ok("unit"))
              ELSE removing({meta.val}, Ok("unit"))
  IN  FsDone("delete", root, path, done.result, done.read, done.tree)

FilesNext ==
  \E root \in FsRoots, path \in FsPaths :
    \/ list_fs_entries(root, path)
    \/ read_text_file(root, path)
    \/ \E content \in FsContents : write_text_file(root, path, content)
    \/ \E new_name \in FsNames : rename_fs_entry(root, path, new_name)
    \/ delete_fs_entry(root, path)

SpecFiles == Init /\ [][FilesNext /\ UNCHANGED <<regVars, decVars, lockVars,
                                     sanVars, cwdVars, loadVars, saveVars,
                                     zshVars>>]_vars

\* The entries the leaf command read, removed, changed or created.
Touched == fsLast.read \cup fsLast.removed \cup fsLast.changed

\* C39: every command of the file service reads and modifies only entries
\* within the root its caller declared; a rename or delete takes effect only
\* when the entry its path names lies strictly below the root, so the root
\* itself and everything outside it are never renamed, deleted or emptied.
C39_OnlyWithinRoot ==
  fsLast.op # "none" /\ Touched # {} =>
    /\ fsLast.root.ok
    /\ \A q \in Touched : IsPrefix(fsLast.root.val, q)
    /\ fsLast.op \in {"rename", "delete"} =>
         /\ fsLast.entry.ok
         /\ IsPrefix(fsLast.root.val, fsLast.entry.val)
         /\ fsLast.entry.val # fsLast.root.val

====
